---- MODULE Spec2Model ----
(***************************************************************************)
(* Verification model of the BeamPilot repository.                         *)
(*                                                                         *)
(*  Part W: imGlaser.GrblWindowTester, the windowed streamer               *)
(*          (src/imGlaser/imGlaser.py).  Specification SpecWindow.         *)
(*  Part S: BeamPilot.GRBLController, the single-in-flight sender          *)
(*          (src/BeamPilot/BeamPilot.py).  Specification SpecSingle.       *)
(*  Part O: optimize_gcode.py, the segmenter, the optimizer and the        *)
(*          emitter.  Specifications SpecParse and SpecOptimize.           *)
(*                                                                         *)
(* Every thread of the Python code is a process with a program counter;    *)
(* one action is one step between two points where another thread can be   *)
(* scheduled.  Byte strings are sequences of one-character strings.        *)
(***************************************************************************)
EXTENDS Integers, Sequences, FiniteSets, TLC

VARIABLES
    \* ---- Part W: GrblWindowTester fields
    window_size,        \* self.window_size
    pending_commands,   \* self.pending_commands
    total_sent,         \* self.total_sent
    total_ok,           \* self.total_ok
    command_queue,      \* self.command_queue (FIFO of instruction ids)
    send_allowed,       \* self.send_allowed
    running,            \* self.running
    paused,             \* self.paused
    ok_event,           \* self.ok_event (threading.Event)
    rx_buffer,          \* self.rx_buffer
    \* ---- Part W: the transport self.ser
    ser_open,           \* self.ser.is_open
    out_waiting,        \* self.ser.out_waiting (bytes still buffered for write)
    in_waiting,         \* bytes the device has sent and rx has not read yet
    wire,               \* every byte string the transport accepted, in order
    dev_acked,          \* how many instructions of wire the device answered
    \* ---- Part W: threads
    tx_pc, tx_cmd, tx_reg,      \* tx_interrupt_handler
    rx_pc, rx_reg,              \* rx_interrupt_handler
    prod_pc, next_cmd,   \* the worker thread (start)
    stop_pc, stop_timed_out,    \* stop(), per calling thread; its 2.0 s have passed
    \* ---- Part W: history
    wrote_after_stop,   \* an instruction was written after an explicit stop emptied the queue
    \* ---- Part S: GRBLController fields
    connected,          \* self.connected
    gc_running,         \* self.running
    gc_paused,          \* self.paused
    current_line,       \* self.current_line
    sent_lines,         \* self.sent_lines
    receive_buffer,     \* self.receive_buffer
    \* ---- Part S: the transport self.ser and the controller behind it
    gwire,              \* the writes the controller has not taken yet, in order
    ser_in,             \* bytes the controller has sent and serial_reader has not read yet
    \* ---- Part S: threads
    sn_pc, sn_idx,      \* send_next_gcode, per calling thread ("ui", "reader")
    rd_pc,              \* serial_reader
    ui_pc,              \* the Tk thread: idle, or inside a button handler
    ops_left,           \* button presses still to come
    polls_left,         \* status queries still to come
    \* ---- Part S: history
    run_sent,           \* indices of the program lines written since the last start
    \* ---- Part S: the position model of GRBLController
    abs_position,       \* << x, y >> in machine coordinates
    rel_position,       \* << x, y >> in work coordinates
    wcs_offset,         \* << x, y >>, the work offset
    \* ---- Part O: parse_gcode_lines, its argument and its locals
    lines,              \* the input lines read so far
    preamble, epilogue, segments,
    current_pos,        \* << x, y >>
    current_F, idle_F,
    absolute, laser_mode, laser_on, in_segment, first_cut_seen,
    seg_lines, seg_points,
    parse_pc,           \* "loop", or "returned"
    \* ---- Part O: optimize_segments and generate_gcode
    level,              \* the optimization level, 0, 1 or 2
    order,              \* the ordered segment list being built and improved
    unused,             \* greedy: the segments not placed yet
    initial_travel,     \* travel of the greedy order
    iter_num, improved, \* the improvement loop of optimize_segments
    attempt, found,     \* fast_local_improve: its attempt counter and its improved flag
    opt_pc,             \* position in optimize_segments
    out_lines           \* generate_gcode: out, the lines it returned

\* groups of variables, for the UNCHANGED clauses
counters == << pending_commands, total_sent, total_ok >>
flags    == << send_allowed, running, paused, ok_event >>
port     == << ser_open, out_waiting, wire, wrote_after_stop >>
device   == << in_waiting, dev_acked >>
txv      == << tx_pc, tx_cmd, tx_reg >>
rxv      == << rx_pc, rx_reg, rx_buffer >>
prodv    == << prod_pc, next_cmd >>
stopv    == << stop_pc, stop_timed_out >>

wvars == << window_size, counters, command_queue, flags, port, device, txv,
            rxv, prodv, stopv >>

sflags   == << gc_running, gc_paused >>
sline    == << current_line, sent_lines >>
sport    == << gwire, run_sent >>
sdev     == << ser_in >>
snv      == << sn_pc, sn_idx >>
rdv      == << rd_pc, receive_buffer >>
uiv      == << ui_pc, ops_left, polls_left >>

posv     == << abs_position, rel_position, wcs_offset >>

svars == << connected, sflags, sline, sport, sdev, snv, rdv, uiv, posv >>

parsev == << lines, preamble, epilogue, segments, current_pos, current_F, idle_F,
             absolute, laser_mode, laser_on, in_segment, first_cut_seen,
             seg_lines, seg_points, parse_pc >>
optv   == << level, order, unused, initial_travel, iter_num, improved, attempt,
             found, opt_pc, out_lines >>
ovars  == << parsev, optv >>

vars == << wvars, svars, ovars >>

-----------------------------------------------------------------------------
(* Bounds of the model *)

\* window capacity and number of queued instructions of the scenario run
ScenarioWindow == 3
ScenarioCmds == 5
\* largest coordinate of the position model, and largest coordinate word of
\* a typed or jogged command
MaxCoord == 2
MaxStep == 1
\* largest coordinate followed in the run of the jog scenario
ScenarioReach == 15
\* fields after the state in one status report
MaxFields == 2
\* acknowledgments in one received byte string of the receive-path runs
MaxFrames == 3
\* lines of the G-code program loaded into GRBLController
NumLines == 2
\* button presses (Start, Pause/Resume, Stop, Send) in one behaviour
MaxUiOps == 3
\* status queries of poll_position in one behaviour
MaxPolls == 1

\* window capacity used by SpecWindow (the source sets CMD_BUFF_DEPTH = 10)
WindowSize == 2
\* instructions the worker thread enqueues in one run, over all its rows
MaxCmds == 3
\* lines of an input file of the segmenter
MaxLines == 6
\* segments handed to the optimizer
MaxSegs == 3
\* rounds of the improvement loop (the source has max_iter = 20)
MaxIter == 2
\* attempts of one fast_local_improve call (the source has max_attempts = 500)
MaxAttempts == 2
\* workers of one parallel_local_improve call (the source has num_threads = 4)
\* and attempts of one worker (max_attempts_per_thread = 200)
NumThreads == 2
MaxThreadAttempts == 2

-----------------------------------------------------------------------------
(* Byte strings *)

\* current_F = None
NoFeed == 0 - 1

OkFrame    == << "o", "k", "\r", "\n" >>
ErrorFrame == << "e", "r", "r", "o", "r", ":", "1", "\r", "\n" >>
OkCR       == << "o", "k", "\r" >>
\* an "ok" terminated by a line feed only
OkLF       == << "o", "k", "\n" >>
\* the start of an "error:<code>" response
ErrorPrefix == << "e", "r", "r", "o", "r", ":" >>

\* bytes.find(pat): the first position (1-based) where pat occurs, 0 when none
Find(buf, pat) ==
    LET hits == { i \in 1..(Len(buf) - Len(pat) + 1) :
                    SubSeq(buf, i, i + Len(pat) - 1) = pat }
    IN  IF hits = {} THEN 0
        ELSE CHOOSE i \in hits : \A j \in hits : i <= j

\* buf[k:] of Python with k counted from 1
From(buf, k) == SubSeq(buf, k, Len(buf))

Threads == { "ui", "worker" }

(* What the transport carries: records of what one write() call handed over. *)
(* kind "prog" is an instruction of the streamed program with its index,    *)
(* "manual" a typed command, "ctl" a control byte with its character code;  *)
(* nl tells whether the written bytes end with a newline.                   *)
Written(kind, id, nl) == [ kind |-> kind, id |-> id, nl |-> nl ]

\* SOFT_RESET = "\x18"
SOFT_RESET == 24
\* PAUSE_CMD = "!"
PAUSE_CMD == 33
\* RESUME_CMD = "~"
RESUME_CMD == 126
\* STATUS_QUERY = "?"
STATUS_QUERY == 63

\* a status report of the controller, "<I>\r\n" standing for "<Idle|MPos:...>\r\n"
StatusFrame == << "<", "I", ">", "\r", "\n" >>

\* the characters str.strip() removes
Whitespace == { " ", "\t", "\r", "\n" }

\* str.strip()
Strip(b) ==
    LET keep == { i \in 1..Len(b) : b[i] \notin Whitespace }
    IN  IF keep = {} THEN << >>
        ELSE SubSeq(b, CHOOSE i \in keep : \A j \in keep : i <= j,
                       CHOOSE i \in keep : \A j \in keep : i >= j)

\* str.startswith(p)
StartsWith(b, p) == Len(b) >= Len(p) /\ SubSeq(b, 1, Len(p)) = p

-----------------------------------------------------------------------------
(* Part W: GrblWindowTester *)

InitWindow ==
    /\ window_size = WindowSize
    /\ pending_commands = 0
    /\ total_sent = 0
    /\ total_ok = 0
    /\ command_queue = << >>
    /\ send_allowed = FALSE
    /\ running = TRUE
    /\ paused = FALSE
    /\ ok_event = FALSE
    /\ rx_buffer = << >>
    /\ ser_open = TRUE
    /\ out_waiting = 0
    /\ in_waiting = << >>
    /\ wire = << >>
    /\ dev_acked = 0
    /\ tx_pc = "poll" /\ tx_cmd = 0 /\ tx_reg = 0
    /\ rx_pc = "poll" /\ rx_reg = 0
    /\ prod_pc = "check" /\ next_cmd = 1
    /\ stop_pc = [t \in Threads |-> "none"]
    /\ stop_timed_out = [t \in Threads |-> FALSE]
    /\ wrote_after_stop = FALSE

\* ---------------- tx_interrupt_handler

\* mutant of TxMaySend: the window test "pending_commands < window_size" left out
TxMaySend_NoWindow ==
    /\ send_allowed
    /\ command_queue # << >>
    /\ out_waiting = 0
    /\ running

\* the send condition of tx_interrupt_handler
TxMaySend ==
    /\ send_allowed
    /\ pending_commands < window_size
    /\ command_queue # << >>
    /\ out_waiting = 0
    /\ running

\* while self.running: if (<send condition>): ...
TxPoll ==
    /\ tx_pc = "poll"
    /\ \/ /\ ~running
          /\ tx_pc' = "exit"
       \/ /\ running
          /\ TxMaySend
          /\ tx_pc' = "get"
    /\ UNCHANGED << svars, ovars, window_size, counters, command_queue, flags, port, device,
                    tx_cmd, tx_reg, rxv, prodv, stopv >>

\* cmd = self.command_queue.get()   (blocks while the queue is empty)
TxGet ==
    /\ tx_pc = "get"
    /\ command_queue # << >>
    /\ tx_cmd' = Head(command_queue)
    /\ command_queue' = Tail(command_queue)
    /\ tx_pc' = "write"
    /\ UNCHANGED << svars, ovars, window_size, counters, flags, port, device, tx_reg, rxv,
                    prodv, stopv >>

\* an explicit stop has emptied the queue (or has returned)
StopCleared(t) == stop_pc[t] \in { "wait", "close", "done" }

\* try: self.ser.write(cmd)   -- the transport accepts the bytes
TxWriteOk ==
    /\ tx_pc = "write"
    /\ ser_open
    /\ wire' = Append(wire, Written("prog", tx_cmd, TRUE))
    /\ out_waiting' = 1
    /\ wrote_after_stop' = (wrote_after_stop \/ StopCleared("ui"))
    /\ tx_pc' = "load"
    /\ UNCHANGED << svars, ovars, window_size, counters, command_queue, flags, ser_open,
                    device, tx_cmd, tx_reg, rxv, prodv, stopv >>

\* except Exception: print(...)   -- the write raised (port closed, or an I/O
\* fault of the open port); the instruction taken from the queue is dropped
TxWriteFail ==
    /\ tx_pc = "write"
    /\ tx_pc' = "poll"
    /\ UNCHANGED << svars, ovars, window_size, counters, command_queue, flags, port, device,
                    tx_cmd, tx_reg, rxv, prodv, stopv >>

\* self.pending_commands += 1, the read of the counter
TxLoad ==
    /\ tx_pc = "load"
    /\ tx_reg' = pending_commands
    /\ tx_pc' = "store"
    /\ UNCHANGED << svars, ovars, window_size, counters, command_queue, flags, port, device,
                    tx_cmd, rxv, prodv, stopv >>

\* the value tx_interrupt_handler writes back to the counter
TxNewPending(reg) == reg + 1

\* self.pending_commands += 1, the write of the counter ; self.total_sent += 1
TxStore ==
    /\ tx_pc = "store"
    /\ pending_commands' = TxNewPending(tx_reg)
    /\ total_sent' = total_sent + 1
    /\ tx_pc' = "poll"
    /\ UNCHANGED << svars, ovars, window_size, total_ok, command_queue, flags, port, device,
                    tx_cmd, tx_reg, rxv, prodv, stopv >>

\* the transport drains its write buffer (out_waiting falls back to 0);
\* only tx_interrupt_handler reads out_waiting, so it is followed while that runs
Drain ==
    /\ tx_pc # "exit"
    /\ out_waiting > 0
    /\ out_waiting' = 0
    /\ UNCHANGED << svars, ovars, window_size, counters, command_queue, flags, ser_open,
                    wire, wrote_after_stop, device, txv, rxv,
                    prodv, stopv >>

\* ---------------- rx_interrupt_handler

\* while self.running: if self.ser.in_waiting > 0: data = read(); rx_buffer.extend(data)
RxPoll ==
    /\ rx_pc = "poll"
    /\ \/ /\ ~running
          /\ rx_pc' = "exit"
          /\ UNCHANGED << rx_buffer, in_waiting >>
       \/ /\ running
          /\ ser_open
          /\ in_waiting # << >>
          /\ rx_buffer' = rx_buffer \o in_waiting
          /\ in_waiting' = << >>
          /\ rx_pc' = "scan"
    /\ UNCHANGED << svars, ovars, window_size, counters, command_queue, flags, port,
                    dev_acked, txv, rx_reg, prodv, stopv >>

\* the byte string rx_interrupt_handler takes for an acknowledgment
RxToken == OkCR

\* mutant of RxMayRelease: the check "if self.pending_commands > 0" left out
RxMayRelease_Unguarded == TRUE

\* whether the receive loop releases a slot for the token it found
RxMayRelease == pending_commands > 0

\* while b'ok\r' in rx_buffer: cut the buffer after it; if pending_commands > 0: ...
RxScan ==
    /\ rx_pc = "scan"
    /\ LET pos == Find(rx_buffer, RxToken)
       IN  IF pos = 0
           THEN /\ rx_pc' = "poll"
                /\ UNCHANGED rx_buffer
           ELSE /\ rx_buffer' = From(rx_buffer, pos + Len(RxToken))
                /\ rx_pc' = IF RxMayRelease THEN "load" ELSE "scan"
    /\ UNCHANGED << svars, ovars, window_size, counters, command_queue, flags, port, device,
                    txv, rx_reg, prodv, stopv >>

\* self.pending_commands -= 1, the read of the counter
RxLoad ==
    /\ rx_pc = "load"
    /\ rx_reg' = pending_commands
    /\ rx_pc' = "store"
    /\ UNCHANGED << svars, ovars, window_size, counters, command_queue, flags, port, device,
                    txv, rx_buffer, prodv, stopv >>

\* self.pending_commands -= 1, the write of the counter
\* self.total_ok += 1 ; self.ok_event.set()
RxStore ==
    /\ rx_pc = "store"
    /\ pending_commands' = rx_reg - 1
    /\ total_ok' = total_ok + 1
    /\ ok_event' = TRUE
    /\ rx_pc' = "scan"
    /\ UNCHANGED << svars, ovars, window_size, total_sent, command_queue, send_allowed,
                    running, paused, port, device, txv, rx_reg, rx_buffer,
                    prodv, stopv >>

\* ---------------- the worker thread: start() / _engrave_row() / _execute()

\* for cmd in cmds: if not self.running: break
\* (a row holds any number of instructions: the loop may also be at its end)
ProdCheck ==
    /\ prod_pc = "check"
    /\ \/ /\ ~running
          /\ prod_pc' = "after_put"
       \/ /\ running
          /\ next_cmd <= MaxCmds
          /\ prod_pc' = "put"
       \/ /\ running
          /\ next_cmd > 1
          /\ prod_pc' = "after_put"
    /\ UNCHANGED << svars, ovars, window_size, counters, command_queue, flags, port, device,
                    txv, rxv, next_cmd, stopv >>

\* self.command_queue.put(cmd)
ProdPut ==
    /\ prod_pc = "put"
    /\ command_queue' = Append(command_queue, next_cmd)
    /\ next_cmd' = next_cmd + 1
    /\ prod_pc' = "check"
    /\ UNCHANGED << svars, ovars, window_size, counters, flags, port, device, txv, rxv,
                    stopv >>

\* if not self.running: return   (else fall through to self._execute())
ProdAfterPut ==
    /\ prod_pc = "after_put"
    /\ prod_pc' = IF ~running THEN "finally" ELSE "exec_begin"
    /\ UNCHANGED << svars, ovars, window_size, counters, command_queue, flags, port, device,
                    txv, rxv, next_cmd, stopv >>

\* _execute: self.send_allowed = True
ExecBegin ==
    /\ prod_pc = "exec_begin"
    /\ send_allowed' = TRUE
    /\ prod_pc' = "exec_loop"
    /\ UNCHANGED << svars, ovars, window_size, counters, command_queue, running, paused,
                    ok_event, port, device, txv, rxv, next_cmd, stopv >>

\* mutant of ExecuteWaits: the loop does not look at self.running
ExecuteWaits_IgnoresRunning ==
    command_queue # << >> \/ pending_commands > 0

\* _execute: the condition of its wait loop
ExecuteWaits ==
    /\ (command_queue # << >> \/ pending_commands > 0)
    /\ running

\* _execute: while (not queue.empty() or pending_commands > 0) and running:
\*               if self.ok_event.wait(timeout=0.1): self.ok_event.clear()
\* (the wait returns when the event is set and also when 0.1 s have passed)
ExecLoop ==
    /\ prod_pc = "exec_loop"
    /\ IF ExecuteWaits
       THEN /\ ok_event' = FALSE
            /\ UNCHANGED prod_pc
       ELSE /\ prod_pc' = "exec_end"
            /\ UNCHANGED ok_event
    /\ UNCHANGED << svars, ovars, window_size, counters, command_queue, send_allowed,
                    running, paused, port, device, txv, rxv, next_cmd, stopv >>

\* _execute: self.send_allowed = False
ExecEnd ==
    /\ prod_pc = "exec_end"
    /\ send_allowed' = FALSE
    /\ prod_pc' = "pause_wait"
    /\ UNCHANGED << svars, ovars, window_size, counters, command_queue, running, paused,
                    ok_event, port, device, txv, rxv, next_cmd, stopv >>

\* while self.paused and self.running: time.sleep(0.1)
\* if not self.running: raise Exception("Stopped")   ... then the next row
ProdPauseWait ==
    /\ prod_pc = "pause_wait"
    /\ ~(paused /\ running)
    /\ prod_pc' = IF ~running \/ next_cmd > MaxCmds THEN "finally" ELSE "check"
    /\ UNCHANGED << svars, ovars, window_size, counters, command_queue, flags, port, device,
                    txv, rxv, next_cmd, stopv >>

\* ---------------- ImGlaserApp: the Pause/Resume and Stop buttons

\* toggle_pause_resume: self.tester.paused = not self.tester.paused
TogglePause ==
    /\ stop_pc["ui"] = "none"
    /\ paused' = ~paused
    /\ UNCHANGED << svars, ovars, window_size, counters, command_queue, send_allowed,
                    running, ok_event, port, device, txv, rxv, prodv, stopv >>

\* ---------------- GrblWindowTester.stop()

\* if not self.running: return
\* self.running = False ; self.send_allowed = False ; self.ok_event.set()
StopEntry(t) ==
    /\ stop_pc[t] = "none"
    /\ IF ~running
       THEN /\ stop_pc' = [stop_pc EXCEPT ![t] = "done"]
            /\ UNCHANGED flags
       ELSE /\ stop_pc' = [stop_pc EXCEPT ![t] = "clear"]
            /\ running' = FALSE
            /\ send_allowed' = FALSE
            /\ ok_event' = TRUE
            /\ UNCHANGED paused
    /\ UNCHANGED << svars, ovars, window_size, counters, command_queue, port, device, txv,
                    rxv, next_cmd, stop_timed_out >>

\* ImGlaserApp.stop_gcode: self.tester.stop()
StopButton ==
    /\ StopEntry("ui")
    /\ UNCHANGED prod_pc

\* start(): finally: self.stop()
ProdFinally ==
    /\ prod_pc = "finally"
    /\ StopEntry("worker")
    /\ prod_pc' = "stopping"

\* what stop() writes to the transport before it closes it: nothing
StopWrites == << >>

\* while not self.command_queue.empty(): self.command_queue.get_nowait()
\* timeout = 2.0 ; start_time = time.time()
StopClear(t) ==
    /\ stop_pc[t] = "clear"
    /\ IF command_queue # << >>
       THEN /\ command_queue' = Tail(command_queue)
            /\ UNCHANGED << stop_pc, stop_timed_out, wire >>
       ELSE /\ stop_pc' = [stop_pc EXCEPT ![t] = "wait"]
            /\ stop_timed_out' = [stop_timed_out EXCEPT ![t] = FALSE]
            /\ wire' = wire \o StopWrites
            /\ UNCHANGED command_queue
    /\ UNCHANGED << svars, ovars, window_size, counters, flags, ser_open, out_waiting,
                    wrote_after_stop, device, txv, rxv, prodv >>

\* the clock: 2.0 s have passed since stop() took start_time
StopTimeout(t) ==
    /\ stop_pc[t] = "wait"
    /\ ~stop_timed_out[t]
    /\ stop_timed_out' = [stop_timed_out EXCEPT ![t] = TRUE]
    /\ UNCHANGED << svars, ovars, window_size, counters, command_queue, flags, port, device,
                    txv, rxv, prodv, stop_pc >>

\* the condition of stop()'s wait for outstanding acknowledgments
StopWaits(t) == pending_commands > 0 /\ ~stop_timed_out[t]

\* while self.pending_commands > 0 and (time.time() - start_time) < timeout:
\*     time.sleep(0.1)
StopWait(t) ==
    /\ stop_pc[t] = "wait"
    /\ ~StopWaits(t)
    /\ stop_pc' = [stop_pc EXCEPT ![t] = "close"]
    /\ UNCHANGED << svars, ovars, window_size, counters, command_queue, flags, port, device,
                    txv, rxv, prodv, stop_timed_out >>

\* if self.ser.is_open: self.ser.flush() ; self.ser.close()
StopClose(t) ==
    /\ stop_pc[t] = "close"
    /\ ser_open' = FALSE
    /\ out_waiting' = 0
    /\ stop_pc' = [stop_pc EXCEPT ![t] = "done"]
    /\ UNCHANGED << svars, ovars, window_size, counters, command_queue, flags, wire,
                    wrote_after_stop, device, txv, rxv, prodv,
                    stop_timed_out >>

\* ---------------- the controller at the other end of the transport

\* the controller answers the oldest unanswered instruction with "ok" or
\* "error:1"; only rx_interrupt_handler reads the port, so the answers are
\* followed while that runs
DevRespond ==
    /\ ser_open
    /\ rx_pc # "exit"
    /\ dev_acked < Len(wire)
    /\ \E f \in { OkFrame, ErrorFrame } : in_waiting' = in_waiting \o f
    /\ dev_acked' = dev_acked + 1
    /\ UNCHANGED << svars, ovars, window_size, counters, command_queue, flags, port,
                    txv, rxv, prodv, stopv >>

-----------------------------------------------------------------------------
(* Part S: GRBLController *)

SnThreads == { "ui", "reader" }

InitSingle ==
    /\ connected = TRUE
    /\ gc_running = FALSE
    /\ gc_paused = FALSE
    /\ current_line = 0
    /\ sent_lines = {}
    /\ receive_buffer = << >>
    /\ gwire = << >>
    /\ ser_in = << >>
    /\ sn_pc = [t \in SnThreads |-> "none"]
    /\ sn_idx = [t \in SnThreads |-> 0]
    /\ rd_pc = "poll"
    /\ ui_pc = "idle"
    /\ ops_left = MaxUiOps
    /\ polls_left = MaxPolls
    /\ run_sent = << >>
    /\ abs_position = << 0, 0 >>
    /\ rel_position = << 0, 0 >>
    /\ wcs_offset = << 0, 0 >>

\* optimize_gcode.py before main() has read its input
InitOptimizer ==
    /\ lines = << >>
    /\ preamble = << >>
    /\ epilogue = << >>
    /\ segments = << >>
    /\ current_pos = << 0, 0 >>
    /\ current_F = NoFeed
    /\ idle_F = 3000
    /\ absolute = TRUE
    /\ laser_mode = FALSE
    /\ laser_on = FALSE
    /\ in_segment = FALSE
    /\ first_cut_seen = FALSE
    /\ seg_lines = << >>
    /\ seg_points = << >>
    /\ parse_pc = "loop"
    /\ level = 2
    /\ order = << >>
    /\ unused = << >>
    /\ initial_travel = 0
    /\ iter_num = 0
    /\ improved = TRUE
    /\ attempt = 0
    /\ found = FALSE
    /\ opt_pc = "idle"
    /\ out_lines = << >>

Init == InitWindow /\ InitSingle /\ InitOptimizer

\* ---------------- send_cmd

\* send_cmd(cmd): if self.connected and self.ser and self.ser.is_open:
\*     self.ser.write((cmd + "\n").encode())
\* (a write that raises is not modelled: the port stays healthy)
SendCmd(kind, id) ==
    gwire' = IF connected THEN Append(gwire, Written(kind, id, TRUE)) ELSE gwire

\* ---------------- send_next_gcode (called by the Tk thread and by serial_reader)

\* the caller continues after send_next_gcode returned
SnReturn(t) ==
    /\ sn_pc' = [sn_pc EXCEPT ![t] = "none"]
    /\ IF t = "ui"
       THEN ui_pc' = "idle" /\ UNCHANGED rd_pc
       ELSE rd_pc' = "timeout" /\ UNCHANGED ui_pc

\* the condition on which send_next_gcode returns without sending
SnNothingToSend == ~gc_running \/ gc_paused \/ current_line >= NumLines

\* if not self.running or self.paused or self.current_line >= len(self.gcode_lines):
\*     if self.current_line >= len(self.gcode_lines): self.running = False
\*     return
SnGuard(t) ==
    /\ sn_pc[t] = "guard"
    /\ IF SnNothingToSend
       THEN /\ gc_running' = (gc_running /\ current_line < NumLines)
            /\ SnReturn(t)
       ELSE /\ sn_pc' = [sn_pc EXCEPT ![t] = "fetch"]
            /\ UNCHANGED << gc_running, rd_pc, ui_pc >>
    /\ UNCHANGED << wvars, ovars, posv, connected, gc_paused, sline, sport, sdev, sn_idx,
                    receive_buffer, ops_left, polls_left >>

\* line = self.gcode_lines[self.current_line]   (IndexError ends the call)
SnFetch(t) ==
    /\ sn_pc[t] = "fetch"
    /\ IF current_line >= NumLines
       THEN /\ SnReturn(t)
            /\ UNCHANGED sn_idx
       ELSE /\ sn_pc' = [sn_pc EXCEPT ![t] = "send"]
            /\ sn_idx' = [sn_idx EXCEPT ![t] = current_line]
            /\ UNCHANGED << rd_pc, ui_pc >>
    /\ UNCHANGED << wvars, ovars, posv, connected, sflags, sline, sport, sdev,
                    receive_buffer, ops_left, polls_left >>

\* self.send_cmd(line)
SnSend(t) ==
    /\ sn_pc[t] = "send"
    /\ SendCmd("prog", sn_idx[t])
    /\ run_sent' = IF gwire' = gwire THEN run_sent ELSE Append(run_sent, sn_idx[t])
    /\ sn_pc' = [sn_pc EXCEPT ![t] = "advance"]
    /\ UNCHANGED << wvars, ovars, posv, connected, sflags, sline, sdev, sn_idx, rdv, uiv >>

\* self.sent_lines.add(self.current_line) ; self.current_line += 1
SnAdvance(t) ==
    /\ sn_pc[t] = "advance"
    /\ sent_lines' = sent_lines \cup { current_line }
    /\ current_line' = current_line + 1
    /\ SnReturn(t)
    /\ UNCHANGED << wvars, ovars, posv, connected, sflags, sport, sdev, sn_idx,
                    receive_buffer, ops_left, polls_left >>

\* ---------------- the Tk thread: button handlers

\* start_gcode: running = True ; paused = False ; current_line = 0 ;
\* sent_lines.clear() ; send_next_gcode()
StartGcode ==
    /\ ui_pc = "idle" /\ ops_left > 0
    /\ connected
    /\ ops_left' = ops_left - 1
    /\ gc_running' = TRUE
    /\ gc_paused' = FALSE
    /\ current_line' = 0
    /\ sent_lines' = {}
    /\ run_sent' = << >>
    /\ ui_pc' = "send_next"
    /\ sn_pc' = [sn_pc EXCEPT !["ui"] = "guard"]
    /\ UNCHANGED << wvars, ovars, posv, connected, gwire, sdev, sn_idx, rdv, polls_left >>

\* toggle_pause_resume: if self.running: resume_gcode() if self.paused else pause_gcode()
TogglePauseResume ==
    /\ ui_pc = "idle" /\ ops_left > 0
    /\ gc_running
    /\ ops_left' = ops_left - 1
    /\ ui_pc' = IF gc_paused THEN "resume_gcode" ELSE "pause_gcode"
    /\ UNCHANGED << wvars, ovars, posv, connected, sflags, sline, sport, sdev, snv, rdv,
                    polls_left >>

\* pause_gcode: if self.running: self.paused = True ; self.send_cmd(PAUSE_CMD)
PauseGcode ==
    /\ ui_pc = "pause_gcode"
    /\ IF gc_running
       THEN /\ gc_paused' = TRUE
            /\ SendCmd("ctl", PAUSE_CMD)
       ELSE UNCHANGED << gc_paused, gwire >>
    /\ ui_pc' = "idle"
    /\ UNCHANGED << wvars, ovars, posv, connected, gc_running, sline, run_sent, sdev, snv,
                    rdv, ops_left, polls_left >>

\* resume_gcode: self.paused = False ; self.send_cmd(RESUME_CMD) ; self.send_next_gcode()
ResumeGcode ==
    /\ ui_pc = "resume_gcode"
    /\ gc_paused' = FALSE
    /\ SendCmd("ctl", RESUME_CMD)
    /\ ui_pc' = "send_next"
    /\ sn_pc' = [sn_pc EXCEPT !["ui"] = "guard"]
    /\ UNCHANGED << wvars, ovars, posv, connected, gc_running, sline, run_sent, sdev,
                    sn_idx, rdv, ops_left, polls_left >>

\* stop_gcode: running = False ; paused = False ; current_line = 0 ;
\* self.send_cmd(SOFT_RESET)
StopGcode ==
    /\ ui_pc = "idle" /\ ops_left > 0
    /\ ops_left' = ops_left - 1
    /\ gc_running' = FALSE
    /\ gc_paused' = FALSE
    /\ current_line' = 0
    /\ SendCmd("ctl", SOFT_RESET)
    /\ UNCHANGED << wvars, ovars, posv, connected, sent_lines, run_sent, sdev, snv, rdv,
                    ui_pc, polls_left >>

\* send_custom_cmd: self.send_cmd(cmd)
SendCustomCmd ==
    /\ ui_pc = "idle" /\ ops_left > 0
    /\ ops_left' = ops_left - 1
    /\ SendCmd("manual", 0)
    /\ UNCHANGED << wvars, ovars, posv, connected, sflags, sline, run_sent, sdev, snv, rdv,
                    ui_pc, polls_left >>

\* poll_position: self.send_cmd(STATUS_QUERY, log=False) ; time.sleep(POLL_INTERVAL)
PollPosition ==
    /\ polls_left > 0
    /\ connected
    /\ polls_left' = polls_left - 1
    /\ SendCmd("ctl", STATUS_QUERY)
    /\ UNCHANGED << wvars, ovars, posv, connected, sflags, sline, run_sent, sdev, snv, rdv,
                    ui_pc, ops_left >>

\* ---------------- serial_reader / process_received_line

\* data = self.ser.read(self.ser.in_waiting or 1) ; if data: self.receive_buffer += data
RdRead ==
    /\ rd_pc = "poll"
    /\ connected
    /\ ser_in # << >>
    /\ receive_buffer' = receive_buffer \o ser_in
    /\ ser_in' = << >>
    /\ rd_pc' = "scan"
    /\ UNCHANGED << wvars, ovars, posv, connected, sflags, sline, sport, snv,
                    uiv >>

\* while '>' in self.receive_buffer or '\n' in self.receive_buffer:
RdHasFrame(buf) == Find(buf, << ">" >>) # 0 \/ Find(buf, << "\n" >>) # 0

\* start_idx != -1 and end_idx != -1 and start_idx < end_idx
RdStatusFirst(buf) ==
    /\ Find(buf, << "<" >>) # 0
    /\ Find(buf, << ">" >>) # 0
    /\ Find(buf, << "<" >>) < Find(buf, << ">" >>)

\* what is left of the buffer once the status report is taken out:
\* self.receive_buffer = self.receive_buffer[end_idx + 1:]
RdAfterStatus(buf) == From(buf, Find(buf, << ">" >>) + 1)

\* line == "ok" or line.startswith("error:")
IsAck(line) == line = << "o", "k" >> \/ StartsWith(line, ErrorPrefix)

\* one turn of the while loop of serial_reader, with process_received_line
RdScan ==
    /\ rd_pc = "scan"
    /\ LET buf == receive_buffer
           nl  == Find(buf, << "\n" >>)
           line == Strip(SubSeq(buf, 1, nl - 1))
       IN  IF ~RdHasFrame(buf)
           THEN /\ rd_pc' = "timeout"
                /\ UNCHANGED << receive_buffer, sn_pc >>
           ELSE IF RdStatusFirst(buf)
           THEN \* a status report: process_received_line queues it for the Tk thread
                /\ receive_buffer' = RdAfterStatus(buf)
                /\ UNCHANGED << rd_pc, sn_pc >>
           ELSE IF nl # 0
           THEN \* line, self.receive_buffer = self.receive_buffer.split('\n', 1) ; break
                /\ receive_buffer' = From(buf, nl + 1)
                /\ IF line = << "o", "k" >> /\ gc_running /\ ~gc_paused
                   THEN /\ rd_pc' = "send_next"
                        /\ sn_pc' = [sn_pc EXCEPT !["reader"] = "guard"]
                   ELSE /\ rd_pc' = "timeout"
                        /\ UNCHANGED sn_pc
           ELSE /\ rd_pc' = "timeout"
                /\ UNCHANGED << receive_buffer, sn_pc >>
    /\ UNCHANGED << wvars, ovars, posv, connected, sflags, sline, sport, sdev, sn_idx, uiv >>

\* if self.receive_buffer and time.time() - self.last_data_time > 0.1:
\*     self.receive_buffer = ""
\* (more than 0.1 s may or may not have passed since the previous pass)
RdTimeout ==
    /\ rd_pc = "timeout"
    /\ \/ UNCHANGED receive_buffer
       \/ /\ receive_buffer # << >>
          /\ receive_buffer' = << >>
    /\ rd_pc' = "poll"
    /\ UNCHANGED << wvars, ovars, posv, connected, sflags, sline, sport, sdev, snv,
                    uiv >>

\* ---------------- the controller at the other end of the transport

\* The controller takes the next write: it answers an instruction with "ok" or
\* "error:1", a status query with a status report, other control bytes with nothing.
GDevStep ==
    /\ gwire # << >>
    /\ LET w == Head(gwire)
       IN  IF w.kind = "ctl"
           THEN ser_in' = IF w.id = STATUS_QUERY THEN ser_in \o StatusFrame ELSE ser_in
           ELSE \E f \in { OkFrame, ErrorFrame } : ser_in' = ser_in \o f
    /\ gwire' = Tail(gwire)
    /\ UNCHANGED << wvars, ovars, posv, connected, sflags, sline, run_sent, snv, rdv, uiv >>

NextSingle ==
    \/ \E t \in SnThreads : SnGuard(t)
    \/ \E t \in SnThreads : SnFetch(t)
    \/ \E t \in SnThreads : SnSend(t)
    \/ \E t \in SnThreads : SnAdvance(t)
    \/ StartGcode \/ TogglePauseResume \/ PauseGcode \/ ResumeGcode
    \/ StopGcode \/ SendCustomCmd \/ PollPosition
    \/ RdRead \/ RdScan \/ RdTimeout
    \/ GDevStep

SpecSingle == Init /\ [][NextSingle]_vars

\* The reader thread, whichever thread is inside send_next_gcode and the
\* controller keep running; nobody has to press a button.
LiveSingle ==
    /\ SpecSingle
    /\ WF_vars(RdRead) /\ WF_vars(RdScan) /\ WF_vars(RdTimeout)
    /\ WF_vars(GDevStep)
    /\ \A t \in SnThreads :
          /\ WF_vars(SnGuard(t)) /\ WF_vars(SnFetch(t))
          /\ WF_vars(SnSend(t)) /\ WF_vars(SnAdvance(t))

-----------------------------------------------------------------------------
(* Part S: the position model of GRBLController.  A command is the sequence of
   its words, cmd.upper().split(): a word is a letter and a number. *)

Word(k, v) == [k |-> k, v |-> v]

\* HOME_CMD = "$H"
HOME_CMD == << Word("$H", 0) >>
\* SET_ZERO_CMD = "G92 X0 Y0"
SET_ZERO_CMD == << Word("G", 92), Word("X", 0), Word("Y", 0) >>
\* RETURN_ZERO_CMD = "G90 X0 Y0"
RETURN_ZERO_CMD == << Word("G", 90), Word("X", 0), Word("Y", 0) >>

\* the coordinate words a typed or jogged command carries: X, Y, both or none
Steps == (0 - MaxStep)..MaxStep
CoordWords ==
    { << >> }
    \cup { << Word("X", a) >> : a \in Steps }
    \cup { << Word("Y", b) >> : b \in Steps }
    \cup { << Word("X", a), Word("Y", b) >> : a \in Steps, b \in Steps }

\* cmd.startswith("G<n>")
StartsWithG(cmd, n) == cmd # << >> /\ cmd[1] = Word("G", n)

\* "X" in cmd or "Y" in cmd
HasCoord(cmd) == \E i \in 1..Len(cmd) : cmd[i].k \in { "X", "Y" }

\* the position fields as one record
Position == [abs |-> abs_position, rel |-> rel_position, wcs |-> wcs_offset]

\* the loop "for c in cmds:" of update_relative_position, from word i on;
\* acc carries dx, dy and the position fields
RECURSIVE ScanWords(_, _, _)
ScanWords(cmd, i, acc) ==
    IF i > Len(cmd) THEN acc
    ELSE LET c == cmd[i]
         IN  IF c.k = "X" THEN ScanWords(cmd, i + 1, [acc EXCEPT !.dx = c.v])
             ELSE IF c.k = "Y" THEN ScanWords(cmd, i + 1, [acc EXCEPT !.dy = c.v])
             ELSE IF c = Word("G", 92) /\ HasCoord(cmd)
             THEN ScanWords(cmd, i + 1,
                    [acc EXCEPT !.wcs = << acc.abs[1] - acc.dx, acc.abs[2] - acc.dy >>,
                                !.rel = << acc.dx, acc.dy >>])
             ELSE ScanWords(cmd, i + 1, acc)

\* mutant of MoveRelative: only rel_position follows the move
MoveRelative_RelOnly(acc) ==
    [acc EXCEPT !.rel = << acc.rel[1] + acc.dx, acc.rel[2] + acc.dy >>]

\* if cmd.startswith("G91"): rel_position += (dx, dy) ; abs_position += (dx, dy)
MoveRelative(acc) ==
    [acc EXCEPT !.rel = << acc.rel[1] + acc.dx, acc.rel[2] + acc.dy >>,
                !.abs = << acc.abs[1] + acc.dx, acc.abs[2] + acc.dy >>]

\* elif cmd.startswith("G90"): rel_position = (dx, dy) ; abs_position = (dx, dy) + wcs_offset
MoveAbsolute(acc) ==
    [acc EXCEPT !.rel = << acc.dx, acc.dy >>,
                !.abs = << acc.dx + acc.wcs[1], acc.dy + acc.wcs[2] >>]

\* update_relative_position(cmd) applied to the position p
UpdateRelativePosition(cmd, p) ==
    IF cmd = HOME_CMD
    THEN [abs |-> << 0, 0 >>, rel |-> << 0, 0 >>, wcs |-> << 0, 0 >>]
    ELSE IF cmd = SET_ZERO_CMD
    THEN [p EXCEPT !.wcs = p.abs, !.rel = << 0, 0 >>]
    ELSE IF cmd = RETURN_ZERO_CMD
    THEN [p EXCEPT !.rel = << 0, 0 >>, !.abs = p.wcs]
    ELSE LET acc == ScanWords(cmd, 1,
                      [dx |-> 0, dy |-> 0, abs |-> p.abs, rel |-> p.rel, wcs |-> p.wcs])
             out == IF StartsWithG(cmd, 91) THEN MoveRelative(acc)
                    ELSE IF StartsWithG(cmd, 90) THEN MoveAbsolute(acc)
                    ELSE acc
         IN  [abs |-> out.abs, rel |-> out.rel, wcs |-> out.wcs]

\* send_cmd on the Tk thread, for a command that starts with one of
\* "G0 ", "G1 ", "G91", "G90", "G92", "$H": the write, then update_relative_position
SendTracked(cmd) ==
    IF connected THEN UpdateRelativePosition(cmd, Position) ELSE Position

\* the coordinates the model follows
InRange(p) ==
    \A v \in { p.abs, p.rel, p.wcs } :
        \A i \in 1..2 : v[i] \in (0 - MaxCoord)..MaxCoord

\* the position fields take the values of p
SetPosition(p) ==
    /\ InRange(p)
    /\ abs_position' = p.abs
    /\ rel_position' = p.rel
    /\ wcs_offset' = p.wcs
    /\ UNCHANGED << wvars, ovars, connected, sflags, sline, run_sent, sdev, snv, rdv, uiv >>

\* the Tk thread is free and the previous command has been answered and read:
\* the commands of the position model are issued by hand, one after the other
HandIdle ==
    /\ ui_pc = "idle"
    /\ gwire = << >> /\ ser_in = << >>
    /\ rd_pc = "poll" /\ receive_buffer = << >>

\* home(): self.send_cmd(HOME_CMD)
Home ==
    /\ HandIdle
    /\ SendCmd("manual", 0)
    /\ SetPosition(SendTracked(HOME_CMD))

\* return_to_zero(): self.send_cmd(RETURN_ZERO_CMD)
ReturnToZero ==
    /\ HandIdle
    /\ SendCmd("manual", 0)
    /\ SetPosition(SendTracked(RETURN_ZERO_CMD))

\* set_zero(): self.send_cmd(SET_ZERO_CMD) ; wcs_offset = abs_position ;
\* rel_position = (0, 0)
SetZero ==
    /\ HandIdle
    /\ SendCmd("manual", 0)
    /\ LET p == SendTracked(SET_ZERO_CMD)
       IN  SetPosition([p EXCEPT !.wcs = p.abs, !.rel = << 0, 0 >>])

\* reset(): self.send_cmd(SOFT_RESET) ; the three positions = (0, 0)
Reset ==
    /\ HandIdle
    /\ SendCmd("ctl", SOFT_RESET)
    /\ SetPosition([abs |-> << 0, 0 >>, rel |-> << 0, 0 >>, wcs |-> << 0, 0 >>])

\* jog(): self.send_cmd(JOG_CMD.format(direction)), and a typed "G91 ..."
RelativeMove ==
    /\ HandIdle
    /\ SendCmd("manual", 0)
    /\ \E w \in CoordWords : SetPosition(SendTracked(<< Word("G", 91) >> \o w))

\* a typed "G90 ..."
AbsoluteMove ==
    /\ HandIdle
    /\ SendCmd("manual", 0)
    /\ \E w \in CoordWords : SetPosition(SendTracked(<< Word("G", 90) >> \o w))

\* a typed "G92 ..."
OffsetSet ==
    /\ HandIdle
    /\ SendCmd("manual", 0)
    /\ \E w \in CoordWords : SetPosition(SendTracked(<< Word("G", 92) >> \o w))

NextPosition ==
    \/ Home \/ ReturnToZero \/ SetZero \/ Reset
    \/ RelativeMove \/ AbsoluteMove \/ OffsetSet
    \/ GDevStep \/ RdRead \/ RdScan \/ RdTimeout

SpecPosition == Init /\ [][NextPosition]_vars

-----------------------------------------------------------------------------
(* Part S: the jog scenario: home, jog X10 Y-5, set zero, jog X5, the buttons
   pressed by hand in any order *)

\* mutant of SetZeroAt: the work offset is left as it was
SetZeroAt_KeepOffset(p) == [p EXCEPT !.rel = << 0, 0 >>]

\* set_zero() at the position p: send_cmd(SET_ZERO_CMD), which runs
\* update_relative_position, then wcs_offset = abs_position ; rel_position = (0, 0)
SetZeroAt(p) ==
    LET q == UpdateRelativePosition(SET_ZERO_CMD, p)
    IN  [q EXCEPT !.wcs = q.abs, !.rel = << 0, 0 >>]

\* JOG_CMD.format("X10 Y-5") and JOG_CMD.format("X5")
JogFar == << Word("G", 91), Word("X", 10), Word("Y", 0 - 5) >>
JogOn  == << Word("G", 91), Word("X", 5) >>

\* one of the four buttons of the scenario is pressed
ScenarioStep ==
    /\ HandIdle
    /\ connected
    /\ SendCmd("manual", 0)
    /\ \E c \in { HOME_CMD, JogFar, SET_ZERO_CMD, JogOn } :
          LET p == IF c = SET_ZERO_CMD THEN SetZeroAt(Position)
                   ELSE UpdateRelativePosition(c, Position)
          IN  /\ \A v \in { p.abs, p.rel, p.wcs } :
                    \A i \in 1..2 : v[i] \in (0 - ScenarioReach)..ScenarioReach
              /\ abs_position' = p.abs
              /\ rel_position' = p.rel
              /\ wcs_offset' = p.wcs
    /\ UNCHANGED << wvars, ovars, connected, sflags, sline, run_sent, sdev, snv, rdv, uiv >>

NextScenario == ScenarioStep \/ GDevStep \/ RdRead \/ RdScan \/ RdTimeout

SpecScenario == Init /\ [][NextScenario]_vars

-----------------------------------------------------------------------------
(* Part S: status reports in process_responses.  A report is the sequence of
   its fields after the state, status_content.split("|")[1:]; a field is a
   name and the pair of its first two numbers. *)

Field(k, v) == [k |-> k, v |-> v]

\* the values a report carries
Reported == { << x, y >> : x \in Steps, y \in Steps }

\* "MPos:x,y,z", "WCO:x,y,z", and a field of another name ("FS:0,0")
StatusFields ==
    { Field("MPos", v) : v \in Reported }
    \cup { Field("WCO", v) : v \in Reported }
    \cup { Field("FS", << 0, 0 >>) }

\* the reports of up to n fields
RECURSIVE StatusReports(_)
StatusReports(n) ==
    IF n = 0 THEN { << >> }
    ELSE StatusReports(n - 1)
         \cup { Append(r, f) : r \in StatusReports(n - 1), f \in StatusFields }

\* part.startswith("MPos:"): abs_position = new_abs ;
\* if time.time() - self.last_g92_time >= POLL_INTERVAL: rel_position = new_abs - wcs_offset
\* (fresh: less than POLL_INTERVAL has passed since last_g92_time)
SetMachinePos(p, v, fresh) ==
    [p EXCEPT !.abs = v,
              !.rel = IF fresh THEN p.rel
                      ELSE << v[1] - p.wcs[1], v[2] - p.wcs[2] >>]

\* mutant of SetWorkOffset: rel_position is not recomputed
SetWorkOffset_KeepRel(p, v) == [p EXCEPT !.wcs = v]

\* part.startswith("WCO:"): wcs_offset = wco ; rel_position = abs_position - wcs_offset
SetWorkOffset(p, v) ==
    [p EXCEPT !.wcs = v,
              !.rel = << p.abs[1] - v[1], p.abs[2] - v[2] >>]

\* one turn of "for part in parts[1:]:"
ApplyField(f, p, fresh) ==
    IF f.k = "MPos" THEN SetMachinePos(p, f.v, fresh)
    ELSE IF f.k = "WCO" THEN SetWorkOffset(p, f.v)
    ELSE p

\* the loop over the fields of a report, from field i on
RECURSIVE ApplyFields(_, _, _, _)
ApplyFields(r, i, p, fresh) ==
    IF i > Len(r) THEN p
    ELSE ApplyFields(r, i + 1, ApplyField(r[i], p, fresh), fresh)

\* process_responses on the Tk thread takes one status report from
\* response_queue; whether last_g92_time is fresh is a matter of the clock
ProcessResponses ==
    /\ ui_pc = "idle"
    /\ \E r \in StatusReports(MaxFields), fresh \in BOOLEAN :
          /\ SetPosition(ApplyFields(r, 1, Position, fresh))
          /\ UNCHANGED gwire

NextStatus == ProcessResponses \/ SetZero \/ GDevStep \/ RdRead \/ RdScan \/ RdTimeout

SpecStatus == Init /\ [][NextStatus]_vars

-----------------------------------------------------------------------------
(* The receive path of the windowed streamer on its own: one instruction is
   written and unacknowledged, and the bytes the controller sent are waiting *)

\* the forms in which a controller terminates its "ok"
OkForms == { OkFrame, OkCR, OkLF }

\* byte strings made of up to n acknowledgments
RECURSIVE OkStrings(_)
OkStrings(n) ==
    IF n = 0 THEN { << >> }
    ELSE OkStrings(n - 1) \cup { b \o f : b \in OkStrings(n - 1), f \in OkForms }

InitRecv ==
    /\ window_size = WindowSize
    /\ pending_commands = 1
    /\ total_sent = 1
    /\ total_ok = 0
    /\ command_queue = << >>
    /\ send_allowed = TRUE
    /\ running = TRUE
    /\ paused = FALSE
    /\ ok_event = FALSE
    /\ rx_buffer = << >>
    /\ ser_open = TRUE
    /\ out_waiting = 0
    /\ in_waiting \in OkStrings(MaxFrames) \ { << >> }
    /\ wire = << Written("prog", 1, TRUE) >>
    /\ dev_acked = 1
    /\ tx_pc = "poll" /\ tx_cmd = 1 /\ tx_reg = 0
    /\ rx_pc = "poll" /\ rx_reg = 0
    /\ prod_pc = "exec_loop" /\ next_cmd = 2
    /\ stop_pc = [t \in Threads |-> "none"]
    /\ stop_timed_out = [t \in Threads |-> FALSE]
    /\ wrote_after_stop = FALSE
    /\ InitSingle
    /\ InitOptimizer

NextRecv == RxPoll \/ RxScan \/ RxLoad \/ RxStore

SpecRecv == InitRecv /\ [][NextRecv]_vars

-----------------------------------------------------------------------------
(* The windowed streamer in a paced run: ScenarioCmds instructions are queued,
   _execute is waiting, and the controller delivers one "ok" per ack cycle, the
   cycle being long against the 0.1 ms sleep (SERIAL_SLEEP) of the two loops *)

\* both loops have done all they can and the write buffer has drained
Quiescent ==
    /\ tx_pc = "poll" /\ ~TxMaySend
    /\ out_waiting = 0
    /\ rx_pc = "poll" /\ in_waiting = << >>

InitPaced ==
    /\ window_size = ScenarioWindow
    /\ pending_commands = 0
    /\ total_sent = 0
    /\ total_ok = 0
    /\ command_queue = [i \in 1..ScenarioCmds |-> i]
    /\ send_allowed = TRUE
    /\ running = TRUE
    /\ paused = FALSE
    /\ ok_event = FALSE
    /\ rx_buffer = << >>
    /\ ser_open = TRUE
    /\ out_waiting = 0
    /\ in_waiting = << >>
    /\ wire = << >>
    /\ dev_acked = 0
    /\ tx_pc = "poll" /\ tx_cmd = 0 /\ tx_reg = 0
    /\ rx_pc = "poll" /\ rx_reg = 0
    /\ prod_pc = "exec_loop" /\ next_cmd = ScenarioCmds + 1
    /\ stop_pc = [t \in Threads |-> "none"]
    /\ stop_timed_out = [t \in Threads |-> FALSE]
    /\ wrote_after_stop = FALSE
    /\ InitSingle
    /\ InitOptimizer

\* one ack cycle: the controller answers the oldest unanswered write with "ok"
AckCycle ==
    /\ Quiescent
    /\ dev_acked < Len(wire)
    /\ in_waiting' = OkFrame
    /\ dev_acked' = dev_acked + 1
    /\ UNCHANGED << svars, ovars, window_size, counters, command_queue, flags, port,
                    txv, rxv, prodv, stopv >>

NextPaced ==
    \/ TxPoll \/ TxGet \/ TxWriteOk \/ TxLoad \/ TxStore \/ Drain
    \/ RxPoll \/ RxScan \/ RxLoad \/ RxStore
    \/ ExecLoop \/ ExecEnd
    \/ AckCycle

SpecPaced == InitPaced /\ [][NextPaced]_vars

-----------------------------------------------------------------------------
(* Part O: optimize_gcode.py, the segmenter parse_gcode_lines.  A line is the
   sequence of its words; the regular expressions of the source become tests
   on the words.  Comments are not modelled. *)

\* the lines an input file is made of
LaserOn  == << Word("M", 3), Word("S", 500) >>
LaserOff == << Word("M", 5) >>
RapidX0  == << Word("G", 0), Word("X", 0) >>
CutX10   == << Word("G", 1), Word("X", 10) >>
CutX5    == << Word("G", 1), Word("X", 5) >>
Relative == << Word("G", 91) >>
\* a move and a laser command on one line, "G1 X5 M3"
CutX5LaserOn == << Word("G", 1), Word("X", 5), Word("M", 3) >>
Alphabet == { LaserOn, LaserOff, RapidX0, CutX10, CutX5, Relative, CutX5LaserOn }

\* RE.search(upper) for the word patterns \bM3\b, \bM5\b, \bG90\b, \bG91\b
HasWord(l, k, v) == \E i \in 1..Len(l) : l[i] = Word(k, v)

\* is_g_move: G_MOVE_RE matches at the start of the line (G0, G00, G1, G01)
is_g_move(l) == l # << >> /\ l[1].k = "G" /\ l[1].v \in { 0, 1 }

\* coords[axis] of the dict built from COORD_RE.finditer (the last match of an
\* axis wins), and F_RE.search (the first match)
HasAxis(l, k) == \E i \in 1..Len(l) : l[i].k = k
LastOf(l, k) ==
    l[CHOOSE i \in 1..Len(l) : l[i].k = k /\ \A j \in (i + 1)..Len(l) : l[j].k # k].v
FirstOf(l, k) ==
    l[CHOOSE i \in 1..Len(l) : l[i].k = k /\ \A j \in 1..(i - 1) : l[j].k # k].v

\* lines 72-75: the modal absolute / relative flag after the line
ModeAfter(l) ==
    IF HasWord(l, "G", 91) THEN FALSE
    ELSE IF HasWord(l, "G", 90) THEN TRUE
    ELSE absolute

\* lines 125-130 and 146-151: the position after the move
NewPos(l) ==
    << IF HasAxis(l, "X")
          THEN IF ModeAfter(l) THEN LastOf(l, "X") ELSE current_pos[1] + LastOf(l, "X")
          ELSE current_pos[1],
       IF HasAxis(l, "Y")
          THEN IF ModeAfter(l) THEN LastOf(l, "Y") ELSE current_pos[2] + LastOf(l, "Y")
          ELSE current_pos[2] >>

\* line 115
is_idle(l) == l[1].v = 0 \/ (laser_mode /\ ~laser_on /\ l[1].v = 1)

\* lines 111-113
FeedAfter(l) == IF HasAxis(l, "F") THEN FirstOf(l, "F") ELSE current_F

\* one pass of the for loop takes the next line of the file
Reads(l) ==
    /\ parse_pc = "loop"
    /\ Len(lines) < MaxLines
    /\ lines' = Append(lines, l)
    /\ absolute' = ModeAfter(l)
    /\ UNCHANGED parse_pc

\* segments.append({'lines': seg_lines, 'points': seg_points}) and the reset
Flush_KeepOpen(ls) ==
    /\ segments' = Append(segments, [lines |-> ls, points |-> seg_points])
    /\ UNCHANGED << in_segment, seg_lines, seg_points >>
Flush(ls) ==
    /\ segments' = Append(segments, [lines |-> ls, points |-> seg_points])
    /\ in_segment' = FALSE
    /\ seg_lines' = << >>
    /\ seg_points' = << >>

\* lines 83-94: a line with M3
ParseM3 ==
    \E l \in Alphabet :
        /\ Reads(l)
        /\ HasWord(l, "M", 3)
        /\ laser_mode' = TRUE
        /\ laser_on' = TRUE
        /\ IF ~in_segment
              THEN /\ in_segment' = TRUE
                   /\ seg_lines' = << l >>
                   /\ seg_points' = << current_pos >>
                   /\ first_cut_seen' = TRUE
              ELSE /\ seg_lines' = Append(seg_lines, l)
                   /\ UNCHANGED << in_segment, seg_points, first_cut_seen >>
        /\ UNCHANGED << wvars, svars, optv, preamble, epilogue, segments,
                        current_pos, current_F, idle_F >>

\* lines 96-105: a line with M5 (and no M3)
ParseM5 ==
    \E l \in Alphabet :
        /\ Reads(l)
        /\ ~HasWord(l, "M", 3)
        /\ HasWord(l, "M", 5)
        /\ laser_mode' = TRUE
        /\ laser_on' = FALSE
        /\ IF in_segment
              THEN Flush(Append(seg_lines, l))
              ELSE UNCHANGED << segments, in_segment, seg_lines, seg_points >>
        /\ UNCHANGED << wvars, svars, optv, preamble, epilogue, current_pos,
                        current_F, idle_F, first_cut_seen >>

\* lines 108-137: an idle move
ParseIdle ==
    \E l \in Alphabet :
        /\ Reads(l)
        /\ ~HasWord(l, "M", 3)
        /\ ~HasWord(l, "M", 5)
        /\ is_g_move(l)
        /\ is_idle(l)
        /\ current_F' = FeedAfter(l)
        /\ IF in_segment
              THEN Flush(seg_lines)
              ELSE UNCHANGED << segments, in_segment, seg_lines, seg_points >>
        /\ current_pos' = NewPos(l)
        /\ idle_F' = IF FeedAfter(l) # NoFeed THEN FeedAfter(l) ELSE idle_F
        /\ preamble' = IF ~first_cut_seen THEN Append(preamble, l) ELSE preamble
        /\ UNCHANGED << wvars, svars, optv, epilogue, laser_mode, laser_on,
                        first_cut_seen >>

\* lines 108-115 and 138-159: a cutting move
ParseCut ==
    \E l \in Alphabet :
        /\ Reads(l)
        /\ ~HasWord(l, "M", 3)
        /\ ~HasWord(l, "M", 5)
        /\ is_g_move(l)
        /\ ~is_idle(l)
        /\ current_F' = FeedAfter(l)
        /\ in_segment' = TRUE
        /\ first_cut_seen' = TRUE
        /\ seg_lines' = IF in_segment THEN Append(seg_lines, l) ELSE << l >>
        /\ seg_points' = IF in_segment THEN Append(seg_points, NewPos(l))
                                       ELSE << current_pos, NewPos(l) >>
        /\ current_pos' = NewPos(l)
        /\ UNCHANGED << wvars, svars, optv, preamble, epilogue, segments, idle_F,
                        laser_mode, laser_on >>

\* lines 161-168: any other line
ParseOther ==
    \E l \in Alphabet :
        /\ Reads(l)
        /\ ~HasWord(l, "M", 3)
        /\ ~HasWord(l, "M", 5)
        /\ ~is_g_move(l)
        /\ seg_lines' = IF in_segment THEN Append(seg_lines, l) ELSE seg_lines
        /\ preamble' = IF ~in_segment /\ ~first_cut_seen THEN Append(preamble, l)
                                                          ELSE preamble
        /\ epilogue' = IF ~in_segment /\ first_cut_seen THEN Append(epilogue, l)
                                                         ELSE epilogue
        /\ UNCHANGED << wvars, svars, optv, segments, current_pos, current_F,
                        idle_F, laser_mode, laser_on, in_segment, first_cut_seen,
                        seg_points >>

\* lines 170-174: the end of the file closes an open segment, and the return
ParseReturn ==
    /\ parse_pc = "loop"
    /\ parse_pc' = "returned"
    /\ segments' = IF in_segment /\ seg_lines # << >>
                      THEN Append(segments, [lines |-> seg_lines, points |-> seg_points])
                      ELSE segments
    /\ UNCHANGED << wvars, svars, optv, lines, preamble, epilogue, current_pos,
                    current_F, idle_F, absolute, laser_mode, laser_on, in_segment,
                    first_cut_seen, seg_lines, seg_points >>

NextParse ==
    ParseM3 \/ ParseM5 \/ ParseIdle \/ ParseCut \/ ParseOther \/ ParseReturn

SpecParse == Init /\ [][NextParse]_vars

-----------------------------------------------------------------------------
(* Part O: optimize_gcode.py, the optimizer optimize_segments and the emitter
   generate_gcode.  A segment is a record of its lines and its points, as in
   the source.  Distances are kept in hundredths of a unit, rounded down; the
   points of the drawn inputs are corners of a 3-4-5 triangle, so their
   distances are whole numbers and every comparison of travel is exact. *)

\* seq[::-1]
RECURSIVE Reverse(_)
Reverse(s) == IF s = << >> THEN << >> ELSE Append(Reverse(Tail(s)), Head(s))

\* dist_sq
dist_sq(a, b) == (a[1] - b[1]) * (a[1] - b[1]) + (a[2] - b[2]) * (a[2] - b[2])

\* the integer square root, by bisection
RECURSIVE Isqrt(_, _, _)
Isqrt(n, lo, hi) ==
    IF lo = hi THEN lo
    ELSE LET mid == (lo + hi + 1) \div 2
         IN  IF mid * mid <= n THEN Isqrt(n, mid, hi) ELSE Isqrt(n, lo, mid - 1)

\* dist: hypot, in hundredths
Hundredths == 100
\* the taxicab distance
dist_Taxicab(a, b) ==
    Hundredths * ((IF a[1] < b[1] THEN b[1] - a[1] ELSE a[1] - b[1])
                  + (IF a[2] < b[2] THEN b[2] - a[2] ELSE a[2] - b[2]))
dist(a, b) == Isqrt(dist_sq(a, b) * Hundredths * Hundredths, 0, 46340)

\* points[0] and points[-1]
First(seg) == seg.points[1]
Last(seg) == seg.points[Len(seg.points)]

\* total_travel
RECURSIVE total_travel(_)
total_travel(ord) ==
    IF Len(ord) < 2 THEN 0
    ELSE total_travel(SubSeq(ord, 1, Len(ord) - 1))
         + dist(Last(ord[Len(ord) - 1]), First(ord[Len(ord)]))

\* the segment with its points and its lines reversed (lines 243-246, 264-267)
Reversed_PointsOnly(seg) == [points |-> Reverse(seg.points), lines |-> seg.lines]
Reversed(seg) == [points |-> Reverse(seg.points), lines |-> Reverse(seg.lines)]

\* lines 220-236: the candidates of one greedy step in the order the loop
\* visits them (start of unused[1], end of unused[1], start of unused[2], ...);
\* the first one at the least squared distance wins
Candidate(k) ==
    [idx |-> (k + 1) \div 2, orient |-> (k % 2 = 0),
     d |-> dist_sq(Last(order[Len(order)]),
                   IF k % 2 = 0 THEN Last(unused[(k + 1) \div 2])
                                ELSE First(unused[(k + 1) \div 2]))]
\* the first unused segment, unreversed, whatever its distance
Best_FirstUnused == Candidate(1)
\* the nearest start: the ends of the unused segments are not looked at
Best_NearestStart ==
    Candidate(CHOOSE k \in { 2 * n - 1 : n \in 1..Len(unused) } :
                /\ \A n \in 1..Len(unused) : Candidate(k).d <= Candidate(2 * n - 1).d
                /\ \A n \in 1..Len(unused) : 2 * n - 1 < k => Candidate(2 * n - 1).d > Candidate(k).d)
Best ==
    Candidate(CHOOSE k \in 1..(2 * Len(unused)) :
                /\ \A m \in 1..(2 * Len(unused)) : Candidate(k).d <= Candidate(m).d
                /\ \A m \in 1..(k - 1) : Candidate(m).d > Candidate(k).d)

\* list.pop(i), the list that is left
Without(s, i) == SubSeq(s, 1, i - 1) \o SubSeq(s, i + 1, Len(s))

\* optimize_orientation(order, j - 1, j), with 1-based j; dist is monotone in
\* dist_sq, so d1 < d0 is decided on the squares
optimize_orientation(ord, j) ==
    IF j > Len(ord) THEN ord
    ELSE IF dist_sq(Last(ord[j - 1]), Last(ord[j])) < dist_sq(Last(ord[j - 1]), First(ord[j]))
         THEN [ord EXCEPT ![j] = Reversed(ord[j])]
         ELSE ord

\* lines 292-297: the orientation pass over positions k .. last
RECURSIVE Orient(_, _, _)
Orient(ord, k, last) ==
    IF k > last THEN ord ELSE Orient(optimize_orientation(ord, k), k + 1, last)

\* lines 286-297: the mutation of positions i < j (1-based), a swap or the
\* reversal of the slice i..j, then the orientation pass around it
Mutated(ord, i, j, swap) ==
    LET m == IF swap
                THEN [ord EXCEPT ![i] = ord[j], ![j] = ord[i]]
                ELSE [k \in 1..Len(ord) |-> IF i <= k /\ k <= j THEN ord[i + j - k] ELSE ord[k]]
        from == IF i > 2 THEN i ELSE 2
        to   == IF j + 1 < Len(ord) THEN j + 1 ELSE Len(ord)
    IN  Orient(m, from, to)

\* the choices random.randint and random.random make in one attempt
Choices(n) == { << i, j, swap >> \in (1..(n - 1)) \X (2..n) \X BOOLEAN : i < j }

\* lines 299-301 and 337-339: new_score < score - 1e-9; 1e-9 is below the
\* resolution of the distances, which are exact
Improves_AnyChange(new_order, ord) == total_travel(new_order) # total_travel(ord)
Improves(new_order, ord) == total_travel(new_order) < total_travel(ord)

\* try_improvement: what one worker can return after k attempts on local_order
RECURSIVE try_improvement(_, _, _)
try_improvement(ord, local_order, k) ==
    IF k = MaxThreadAttempts
       THEN { [order |-> local_order, improved |-> FALSE] }
       ELSE UNION { LET m == Mutated(local_order, c[1], c[2], c[3])
                    IN  IF Improves(m, ord)
                           THEN { [order |-> m, improved |-> TRUE] }
                           ELSE try_improvement(ord, m, k + 1)
                    : c \in Choices(Len(ord)) }

\* generate_gcode, lines 439-448: the lines for segments i.. of ord, the tool
\* being at pos (<< >> for (None, None))
\* the travel without the M5 before it
TravelTo_LaserLeftOn(p, laser) ==
    IF laser
       THEN << << Word("G", 1), Word("F", idle_F), Word("X", p[1]), Word("Y", p[2]) >> >>
       ELSE << << Word("G", 0), Word("X", p[1]), Word("Y", p[2]) >> >>
TravelTo(p, laser) ==
    IF laser
       THEN << LaserOff, << Word("G", 1), Word("F", idle_F), Word("X", p[1]), Word("Y", p[2]) >> >>
       ELSE << << Word("G", 0), Word("X", p[1]), Word("Y", p[2]) >> >>
RECURSIVE Emit(_, _, _, _)
Emit(ord, i, pos, laser) ==
    IF i > Len(ord) THEN << >>
    ELSE (IF pos = << >> \/ pos # First(ord[i]) THEN TravelTo(First(ord[i]), laser) ELSE << >>)
         \o ord[i].lines
         \o Emit(ord, i + 1, Last(ord[i]), laser)
generate_gcode(pre, ord, epi, laser) == pre \o Emit(ord, 1, << >>, laser) \o epi

\* ---- the inputs of the optimizer runs
Corners == { << 0, 0 >>, << 3, 0 >>, << 0, 4 >> }
CutTo(p) == << Word("G", 1), Word("X", p[1]), Word("Y", p[2]) >>
Dwell == << Word("G", 4), Word("P", 0) >>
\* a segment cut from a to b as the segmenter returns it, in laser mode
\* (M3, G1, M5) and otherwise (G1, then a line that is not a move)
Cut(a, b, laser) ==
    [lines |-> IF laser THEN << LaserOn, CutTo(b), LaserOff >> ELSE << CutTo(b), Dwell >>,
     points |-> << a, b >>]
S1(laser) == Cut(<< 0, 0 >>, << 10, 0 >>, laser)
S2(laser) == Cut(<< 20, 0 >>, << 30, 0 >>, laser)
S3(laser) == Cut(<< 10, 0 >>, << 10, 10 >>, laser)
ScenarioA(laser) == << S1(laser), S2(laser), S3(laser) >>
Drawn(laser) ==
    UNION { [1..n -> { Cut(a, b, laser) : a \in Corners, b \in Corners }] : n \in 0..MaxSegs }

\* main() after parse_gcode_lines has returned
InitOptimize ==
    /\ InitWindow
    /\ InitSingle
    /\ lines = << >>
    /\ preamble = << << Word("G", 90) >> >>
    /\ epilogue = << << Word("M", 2) >> >>
    /\ laser_mode \in BOOLEAN
    /\ segments \in Drawn(laser_mode) \cup { ScenarioA(laser_mode) }
    /\ current_pos = << 0, 0 >>
    /\ current_F = NoFeed
    /\ idle_F = 3000
    /\ absolute = TRUE
    /\ laser_on = FALSE
    /\ in_segment = FALSE
    /\ first_cut_seen = (segments # << >>)
    /\ seg_lines = << >>
    /\ seg_points = << >>
    /\ parse_pc = "returned"
    /\ level = 2
    /\ order = << >>
    /\ unused = << >>
    /\ initial_travel = 0
    /\ iter_num = 0
    /\ improved = TRUE
    /\ attempt = 0
    /\ found = FALSE
    /\ opt_pc = "idle"
    /\ out_lines = << >>

\* main, lines 479-483: no segments, the input is written back
WriteOriginal ==
    /\ parse_pc = "returned"
    /\ opt_pc = "idle"
    /\ segments = << >>
    /\ out_lines' = lines
    /\ opt_pc' = "written"
    /\ UNCHANGED << wvars, svars, parsev, level, order, unused, initial_travel,
                    iter_num, improved, attempt, found >>

\* optimize_segments is called with a level; greedy, lines 203-207: the first
\* segment seeds the order
GreedySeed ==
    /\ parse_pc = "returned"
    /\ opt_pc = "idle"
    /\ segments # << >>
    /\ level' \in { 0, 1, 2 }
    /\ order' = << segments[1] >>
    /\ unused' = Tail(segments)
    /\ opt_pc' = "greedy"
    /\ UNCHANGED << wvars, svars, parsev, initial_travel, iter_num, improved,
                    attempt, found, out_lines >>

\* greedy, lines 216-248: one pass of the while loop
GreedyStep ==
    /\ opt_pc = "greedy"
    /\ unused # << >>
    /\ order' = Append(order, IF Best.orient THEN Reversed(unused[Best.idx])
                                             ELSE unused[Best.idx])
    /\ unused' = Without(unused, Best.idx)
    /\ UNCHANGED << wvars, svars, parsev, level, initial_travel, iter_num,
                    improved, attempt, found, opt_pc, out_lines >>

\* greedy returns; lines 383-397
GreedyReturn ==
    /\ opt_pc = "greedy"
    /\ unused = << >>
    /\ IF level = 0
          THEN /\ opt_pc' = "done"
               /\ UNCHANGED << initial_travel, iter_num, improved >>
          ELSE /\ initial_travel' = total_travel(order)
               /\ iter_num' = 0
               /\ improved' = TRUE
               /\ opt_pc' = "loop"
    /\ UNCHANGED << wvars, svars, parsev, level, order, unused, attempt, found,
                    out_lines >>

\* the next round starts whatever the number of rounds made
RoundBegin_Uncapped ==
    /\ opt_pc = "loop"
    /\ improved
    /\ iter_num' = iter_num + 1
    /\ attempt' = 0
    /\ found' = FALSE
    /\ opt_pc' = IF level = 1 THEN "parallel" ELSE "local"
    /\ UNCHANGED << wvars, svars, parsev, level, order, unused, initial_travel,
                    improved, out_lines >>

\* lines 399-410: the next round starts
RoundBegin ==
    /\ opt_pc = "loop"
    /\ iter_num < MaxIter
    /\ improved
    /\ iter_num' = iter_num + 1
    /\ attempt' = 0
    /\ found' = FALSE
    /\ opt_pc' = IF level = 1 THEN "parallel" ELSE "local"
    /\ UNCHANGED << wvars, svars, parsev, level, order, unused, initial_travel,
                    improved, out_lines >>

\* lines 400-402: the time budget is used up
TimedOut ==
    /\ opt_pc = "loop"
    /\ iter_num < MaxIter
    /\ improved
    /\ opt_pc' = "done"
    /\ UNCHANGED << wvars, svars, parsev, level, order, unused, initial_travel,
                    iter_num, improved, attempt, found, out_lines >>

\* line 399 is false; lines 416-422
LoopEnd ==
    /\ opt_pc = "loop"
    /\ ~(iter_num < MaxIter /\ improved)
    /\ opt_pc' = "done"
    /\ UNCHANGED << wvars, svars, parsev, level, order, unused, initial_travel,
                    iter_num, improved, attempt, found, out_lines >>

\* fast_local_improve, lines 278-305: one attempt
LocalAttempt ==
    /\ opt_pc = "local"
    /\ Len(order) >= 3
    /\ attempt < MaxAttempts
    /\ attempt' = attempt + 1
    /\ \E c \in Choices(Len(order)) :
          LET new_order == Mutated(order, c[1], c[2], c[3])
          IN  IF Improves(new_order, order)
                 THEN order' = new_order /\ found' = TRUE
                 ELSE UNCHANGED << order, found >>
    /\ UNCHANGED << wvars, svars, parsev, level, unused, initial_travel, iter_num,
                    improved, opt_pc, out_lines >>

\* fast_local_improve returns (lines 272-273, 307) to line 410
LocalReturn ==
    /\ opt_pc = "local"
    /\ Len(order) < 3 \/ attempt = MaxAttempts
    /\ improved' = found
    /\ opt_pc' = "loop"
    /\ UNCHANGED << wvars, svars, parsev, level, order, unused, initial_travel,
                    iter_num, attempt, found, out_lines >>

\* parallel_local_improve, lines 311-362, and line 408: every worker returns
\* one of its outcomes, and the best improved one, the first of them that
\* completed among equals, replaces the order
ParallelRound ==
    /\ opt_pc = "parallel"
    /\ IF Len(order) < 3
          THEN improved' = FALSE /\ UNCHANGED order
          ELSE \E results \in [1..NumThreads -> try_improvement(order, order, 0)] :
                  LET good == { results[t].order : t \in { u \in 1..NumThreads : results[u].improved } }
                  IN  IF good = { }
                         THEN improved' = FALSE /\ UNCHANGED order
                         ELSE /\ improved' = TRUE
                              /\ order' \in { g \in good :
                                      \A h \in good : total_travel(g) <= total_travel(h) }
    /\ opt_pc' = "loop"
    /\ UNCHANGED << wvars, svars, parsev, level, unused, initial_travel, iter_num,
                    attempt, found, out_lines >>

\* main, lines 493-497: generate_gcode and the write
Generate ==
    /\ opt_pc = "done"
    /\ out_lines' = generate_gcode(preamble, order, epilogue, laser_mode)
    /\ opt_pc' = "written"
    /\ UNCHANGED << wvars, svars, parsev, level, order, unused, initial_travel,
                    iter_num, improved, attempt, found >>

NextOptimize ==
    \/ WriteOriginal \/ GreedySeed \/ GreedyStep \/ GreedyReturn
    \/ RoundBegin \/ TimedOut \/ LoopEnd
    \/ LocalAttempt \/ LocalReturn \/ ParallelRound \/ Generate

SpecOptimize == InitOptimize /\ [][NextOptimize]_vars

\* optimize_gcode.py is one sequential program (the workers of level 1 are
\* joined inside parallel_local_improve): it keeps taking its next step until
\* main has written the output. This is WF_vars(NextOptimize) with ENABLED
\* written out: a step is enabled exactly when opt_pc # "written".
Sequential == []<>(opt_pc = "written") \/ []<><<NextOptimize>>_vars
LiveOptimize == SpecOptimize /\ Sequential

-----------------------------------------------------------------------------
(* The specifications *)

NextWindow ==
    \/ TxPoll \/ TxGet \/ TxWriteOk \/ TxWriteFail \/ TxLoad \/ TxStore
    \/ Drain
    \/ RxPoll \/ RxScan \/ RxLoad \/ RxStore
    \/ ProdCheck \/ ProdPut \/ ProdAfterPut \/ ExecBegin \/ ExecLoop
    \/ ExecEnd \/ ProdPauseWait \/ ProdFinally
    \/ TogglePause \/ StopButton
    \/ \E t \in Threads : StopClear(t)
    \/ \E t \in Threads : StopTimeout(t)
    \/ \E t \in Threads : StopWait(t)
    \/ \E t \in Threads : StopClose(t)
    \/ DevRespond

SpecWindow == Init /\ [][NextWindow]_vars

\* The threads of the worker and of the Stop button keep running, and the clock
\* of stop()'s timeout advances; nothing is assumed of the controller, so it
\* may stay silent for ever.
LiveWindow ==
    /\ SpecWindow
    /\ WF_vars(ExecLoop) /\ WF_vars(ExecEnd)
    /\ \A t \in Threads :
          /\ WF_vars(StopClear(t)) /\ WF_vars(StopTimeout(t))
          /\ WF_vars(StopWait(t)) /\ WF_vars(StopClose(t))

-----------------------------------------------------------------------------
(* Claims on the windowed streamer *)

\* C1: pending_commands stays within 0..window_size in every reachable state.
C1_PendingWithinWindow ==
    pending_commands >= 0 /\ pending_commands <= window_size

\* C1 witness: after traffic, the receive loop finds an "ok" token while nothing
\* is pending.
C1_Witness ==
    /\ rx_pc = "scan"
    /\ Find(rx_buffer, RxToken) # 0
    /\ pending_commands = 0
    /\ total_ok > 0

\* both loops are between two passes: no update of a counter is half done
LoopsIdle == tx_pc \in { "poll", "exit" } /\ rx_pc \in { "poll", "exit" }

\* C2: whenever neither loop is inside an update, pending_commands is the
\* number of instructions sent and not yet acknowledged, total_sent - total_ok.
C2_PendingIsSentMinusOk ==
    LoopsIdle => pending_commands = total_sent - total_ok

\* C3: the send loop is about to write an instruction only while the write
\* buffer is empty, the window has room, and the session is running and not
\* paused (the instruction itself has just been taken from the queue).
C3_WriteOnlyWhenPermitted ==
    (tx_pc = "write" /\ ser_open) =>
        /\ out_waiting = 0
        /\ pending_commands < window_size
        /\ running
        /\ ~paused

\* C6: an "error:<code>" response is taken by the receive loop like an "ok":
\* after a receive pass none is left in rx_buffer with its slot still held.
C6_ErrorReleasesSlot ==
    rx_pc = "poll" => Find(rx_buffer, ErrorPrefix) = 0

\* C8: once an explicit stop has emptied the queue, the queue stays empty and
\* no instruction is written to the transport any more.
C8_StopEmptiesAndSilences ==
    StopCleared("ui") => (command_queue = << >> /\ ~wrote_after_stop)

\* C9: when an explicit stop has returned, a soft-reset byte (0x18) was
\* written to the transport.
C9_StopEmitsSoftReset ==
    stop_pc["ui"] = "done" =>
        \E i \in 1..Len(wire) : wire[i].kind = "ctl" /\ wire[i].id = SOFT_RESET

\* the worker thread is inside _execute's wait loop
InExecute == prod_pc = "exec_loop"

-----------------------------------------------------------------------------
(* Claims on the single-in-flight controller *)

\* C4: within one run the program lines reach the transport in index order
\* 0,1,2,..., none skipped and none sent twice.
C4_LinesInIndexOrder ==
    \A i \in 1..Len(run_sent) : run_sent[i] = i - 1

\* the complete lines of a buffer that process_received_line would take as an
\* acknowledgment ("ok" or "error:...")
RECURSIVE AckTokens(_)
AckTokens(buf) ==
    LET nl == Find(buf, << "\n" >>)
    IN  IF nl = 0 THEN 0
        ELSE (IF IsAck(Strip(SubSeq(buf, 1, nl - 1))) THEN 1 ELSE 0)
             + AckTokens(From(buf, nl + 1))

\* C5: the step of serial_reader that takes a status report out of the receive
\* buffer leaves every complete "ok"/"error:" token of the buffer in place.
C5_StatusKeepsAcks ==
    [][ (rd_pc = "scan" /\ RdStatusFirst(receive_buffer))
          => AckTokens(receive_buffer') = AckTokens(receive_buffer) ]_vars

\* the program lines written to the transport that the controller has not
\* answered yet
ProgInFlight == { i \in 1..Len(gwire) : gwire[i].kind = "prog" }

\* C7: at most one program line is written and not yet answered at any time.
C7_OneLineInFlight == Cardinality(ProgInFlight) <= 1

-----------------------------------------------------------------------------
(* Claims on pause, completion and draining *)

\* C11: while the windowed streamer is paused, a feed-hold byte ('!') has been
\* written to the transport.
C11_PauseEmitsFeedHold ==
    paused =>
        \E i \in 1..Len(wire) : wire[i].kind = "ctl" /\ wire[i].id = PAUSE_CMD

\* the step of send_next_gcode that clears running because the program is
\* exhausted (current_line >= len(self.gcode_lines))
Completes ==
    /\ \E t \in SnThreads : sn_pc[t] = "guard"
    /\ gc_running /\ ~gc_running'
    /\ current_line >= NumLines /\ current_line' = current_line

\* C12: running is cleared for an exhausted program only when every program
\* line has been written and none of them is still unanswered.
C12_CompleteOnlyWhenAllAcked ==
    [][ Completes =>
          /\ { run_sent[i] : i \in 1..Len(run_sent) } = 0..(NumLines - 1)
          /\ ProgInFlight = {} ]_vars

\* the send loop holds an instruction it took from the queue and has not yet
\* counted in pending_commands
TxHoldsInstruction == tx_pc \in { "write", "load", "store" }

\* C13: when _execute has left its wait loop and the session is still running,
\* the queue is empty, the send loop holds no instruction and the controller
\* has answered every write.
C13_ExecuteReturnsDrained ==
    (prod_pc = "exec_end" /\ running) =>
        /\ command_queue = << >>
        /\ ~TxHoldsInstruction
        /\ dev_acked = Len(wire)

\* the program has run to its end: running cleared with current_line past
\* the last line
Complete == ~gc_running /\ current_line >= NumLines

\* the controller's answer to the one line in flight is "error:1", it is the
\* only thing received, and lines remain to be sent
ErrorAnswered ==
    /\ gc_running /\ ~gc_paused
    /\ rd_pc = "scan" /\ receive_buffer = ErrorFrame
    /\ gwire = << >> /\ ser_in = << >>
    /\ ui_pc = "idle" /\ sn_pc["ui"] = "none"
    /\ current_line < NumLines

\* C14: a running session whose line in flight is answered with "error:1"
\* goes on and reaches the end of the program.
C14_ErrorDoesNotStall == ErrorAnswered ~> Complete

-----------------------------------------------------------------------------
(* Claims on transport errors, control bytes and resets *)

\* instruction id is still queued, is in the send loop's hands before its
\* write, or has been written
Accounted(id) ==
    \/ \E i \in 1..Len(command_queue) : command_queue[i] = id
    \/ tx_pc = "write" /\ tx_cmd = id
    \/ \E i \in 1..Len(wire) : wire[i].kind = "prog" /\ wire[i].id = id

\* C15: as long as no stop has begun, every instruction put in the queue is
\* still to be written or has been written, also after a write has failed.
C15_FailedWriteIsRetried ==
    running => \A id \in 1..(next_cmd - 1) : Accounted(id)

\* C16: a control byte ('!', '~', 0x18, '?') is on the transport without a
\* newline after it.
C16_ControlBytesBare ==
    \A i \in 1..Len(gwire) : gwire[i].kind = "ctl" => ~gwire[i].nl

\* the step that is stop_gcode: the Tk thread writes the soft reset
StopStep ==
    /\ ui_pc = "idle" /\ ops_left' = ops_left - 1
    /\ gwire' = Append(gwire, Written("ctl", SOFT_RESET, TRUE))

\* C17: right after a stop the session is neither running nor paused, its
\* instruction index is 0 and its set of sent indices is empty.
C17_StopResetsSession ==
    [][ StopStep =>
          /\ ~gc_running' /\ ~gc_paused'
          /\ current_line' = 0
          /\ sent_lines' = {} ]_vars

\* C18: when the receive loop has read everything and is idle again, no "ok"
\* is left in its buffer, whether it ended in a carriage return or a line feed.
C18_OkEitherTerminator ==
    (rx_pc = "poll" /\ in_waiting = << >>) =>
        Find(rx_buffer, OkCR) = 0 /\ Find(rx_buffer, OkLF) = 0

-----------------------------------------------------------------------------
(* Claims on the paced run *)

\* C19: in the paced run pending_commands never exceeds the window capacity;
\* at rest before the last ack cycle an instruction is in flight, and at rest
\* after ScenarioCmds ack cycles every instruction is sent and acknowledged.
C19_PacedRunCompletes ==
    /\ pending_commands <= ScenarioWindow
    /\ (Quiescent /\ dev_acked < ScenarioCmds) => dev_acked < Len(wire)
    /\ (Quiescent /\ dev_acked = ScenarioCmds) =>
          /\ command_queue = << >>
          /\ pending_commands = 0
          /\ total_sent = ScenarioCmds
          /\ total_ok = ScenarioCmds

\* C19 witness: the window was full on the way and the run is complete.
C19_Witness ==
    /\ Quiescent /\ dev_acked = ScenarioCmds
    /\ total_ok = ScenarioCmds /\ pending_commands = 0
    /\ command_queue = << >>

-----------------------------------------------------------------------------
(* Claims on the position model *)

\* C20: after each locally issued command (home, set-zero, return-to-zero,
\* reset, relative move, absolute move, offset-set) the relative position is
\* the absolute position minus the work offset.
C20_RelIsAbsMinusOffset ==
    rel_position = << abs_position[1] - wcs_offset[1],
                      abs_position[2] - wcs_offset[2] >>

\* C20 witness: the work offset is away from the origin and the tool is away
\* from the work zero on both axes.
C20_Witness ==
    /\ wcs_offset[1] # 0 /\ wcs_offset[2] # 0
    /\ rel_position[1] # 0 /\ rel_position[2] # 0
    /\ abs_position # << 0, 0 >>

\* the typed command "G92 X<a> Y<b>"
OffsetSetCmd(a, b) == << Word("G", 92), Word("X", a), Word("Y", b) >>

\* C21: from every position, "G92 X<a> Y<b>" sets the work offset to the
\* absolute position minus (a, b) and the relative position to (a, b).
C21_OffsetSetUsesCoordinates ==
    \A a \in Steps, b \in Steps :
        LET p == SendTracked(OffsetSetCmd(a, b))
        IN  /\ p.wcs = << abs_position[1] - a, abs_position[2] - b >>
            /\ p.rel = << a, b >>

\* the difference of two positions
Minus(u, v) == << u[1] - v[1], u[2] - v[2] >>

\* C22: from every position, an MPos field sets the absolute position to the
\* reported value and, unless the last offset change is fresh, the relative
\* position to absolute minus offset; a WCO field sets the offset to the
\* reported value and the relative position to absolute minus offset; any
\* other field changes nothing.
C22_StatusOverwrites ==
    \A f \in StatusFields, fresh \in BOOLEAN :
        LET q == ApplyField(f, Position, fresh)
        IN  /\ f.k = "MPos" =>
                 /\ q.abs = f.v /\ q.wcs = wcs_offset
                 /\ ~fresh => q.rel = Minus(q.abs, q.wcs)
            /\ f.k = "WCO" =>
                 /\ q.wcs = f.v /\ q.abs = abs_position
                 /\ q.rel = Minus(q.abs, q.wcs)
            /\ f.k \notin { "MPos", "WCO" } => q = Position

\* C22 witness: a report has moved the absolute position while the offset
\* change was fresh, so the relative position is not absolute minus offset.
C22_Witness ==
    /\ rel_position # Minus(abs_position, wcs_offset)
    /\ wcs_offset # << 0, 0 >>

\* C23: from every position, home gives absolute (0,0); then a jog X10 Y-5
\* gives absolute (10,-5) and relative (10,-5); then set-zero gives work
\* offset (10,-5) and relative (0,0); then a jog X5 gives absolute (15,-5)
\* and relative (5,0).
C23_JogScenario ==
    LET p0 == UpdateRelativePosition(HOME_CMD, Position)
        p1 == UpdateRelativePosition(JogFar, p0)
        p2 == SetZeroAt(p1)
        p3 == UpdateRelativePosition(JogOn, p2)
    IN  /\ p0.abs = << 0, 0 >>
        /\ p1.abs = << 10, 0 - 5 >> /\ p1.rel = << 10, 0 - 5 >>
        /\ p2.wcs = << 10, 0 - 5 >> /\ p2.rel = << 0, 0 >>
        /\ p3.abs = << 15, 0 - 5 >> /\ p3.rel = << 5, 0 >>

\* C23 witness: the run has pressed the four buttons in the order of the
\* scenario and stands at its last position.
C23_Witness ==
    /\ abs_position = << 15, 0 - 5 >>
    /\ rel_position = << 5, 0 >>
    /\ wcs_offset = << 10, 0 - 5 >>

-----------------------------------------------------------------------------
(* Claims on the segmenter *)

\* the laser state the segmenter has reached before line i of the input
LaserLines(i) == { j \in 1..(i - 1) : HasWord(lines[j], "M", 3) \/ HasWord(lines[j], "M", 5) }
LaserOffBefore(i) ==
    /\ LaserLines(i) # {}
    /\ ~HasWord(lines[CHOOSE j \in LaserLines(i) : \A k \in LaserLines(i) : k <= j], "M", 3)
\* line i of the input is an idle move
IdleMove(i) ==
    /\ ~HasWord(lines[i], "M", 3)
    /\ ~HasWord(lines[i], "M", 5)
    /\ is_g_move(lines[i])
    /\ (lines[i][1].v = 0 \/ LaserOffBefore(i))
\* the first i input lines without the idle moves
RECURSIVE NonIdleLines(_)
NonIdleLines(i) ==
    IF i = 0 THEN << >>
    ELSE IF IdleMove(i) THEN NonIdleLines(i - 1)
    ELSE Append(NonIdleLines(i - 1), lines[i])
\* the lines of the segments, in segment order
RECURSIVE SegmentLines(_, _)
SegmentLines(segs, i) ==
    IF i = 0 THEN << >> ELSE SegmentLines(segs, i - 1) \o segs[i].lines
NotMove(l) == ~is_g_move(l)
\* preamble + segment lines + epilogue, without the idle moves the preamble keeps
KeptLines ==
    SelectSeq(preamble, NotMove) \o SegmentLines(segments, Len(segments)) \o epilogue

\* C24: when parse_gcode_lines has returned, the input lines that are not idle
\* moves are, each once and in their input order, exactly the lines of
\* preamble + segment lines + epilogue.
C24_NoLineLostOrMoved ==
    parse_pc = "returned" => KeptLines = NonIdleLines(Len(lines))

\* the input M3 S500 / G1 X10 / M5 / G0 X0 / M3 S500 / G1 X5
ScenarioC == << LaserOn, CutX10, LaserOff, RapidX0, LaserOn, CutX5 >>

\* C25: the segmenter returns exactly 2 segments for the input
\* M3 S500 / G1 X10 / M5 / G0 X0 / M3 S500 / G1 X5.
C25_ScenarioTwoSegments ==
    (parse_pc = "returned" /\ lines = ScenarioC) => Len(segments) = 2
C25_Witness ==
    /\ parse_pc = "returned"
    /\ lines = ScenarioC
    /\ segments = << [lines |-> << LaserOn, CutX10, LaserOff >>, points |-> << << 0, 0 >>, << 10, 0 >> >>],
                     [lines |-> << LaserOn, CutX5 >>, points |-> << << 0, 0 >>, << 5, 0 >> >>] >>

-----------------------------------------------------------------------------
(* Claims on the optimizer and the emitter *)

\* optimize_segments has returned
Returned == opt_pc \in { "done", "written" }
\* ord holds the segments of segs, each once, each as it was or reversed
Rearranged(ord, segs) ==
    /\ Len(ord) = Len(segs)
    /\ \E pi \in Permutations(1..Len(segs)) :
          \A i \in 1..Len(segs) :
              \/ ord[i] = segs[pi[i]]
              \/ /\ ord[i].points = Reverse(segs[pi[i]].points)
                 /\ ord[i].lines = Reverse(segs[pi[i]].lines)

\* C26: at every level and for every random choice, the order optimize_segments
\* returns holds the input segments, each exactly once, each either unchanged
\* or with its points and its lines both reversed.
C26_OutputIsRearrangement ==
    Returned => Rearranged(order, segments)
C26_Witness ==
    /\ opt_pc = "done"
    /\ level = 1
    /\ Len(order) = 3
    /\ order[1] # segments[1]
    /\ \E i \in 1..3 : order[i] \notin { segments[k] : k \in 1..3 }

\* the local search is running or has run
Searching == opt_pc \in { "loop", "local", "parallel", "done", "written" } /\ level # 0

\* C27: in the local search a step that changes the order strictly decreases
\* total travel, total travel never increases, and the order returned at
\* levels 1 and 2 has no more travel than the greedy order.
C27_TravelNeverIncreases ==
    /\ [](Returned /\ level # 0 => total_travel(order) <= initial_travel)
    /\ [][Searching /\ order' # order => total_travel(order') < total_travel(order)]_vars
    /\ [][Searching => total_travel(order') <= total_travel(order)]_vars
C27_Witness ==
    /\ opt_pc = "done"
    /\ level = 2
    /\ iter_num = 2
    /\ total_travel(order) < initial_travel

\* greedy stage 1 has placed every segment of Scenario A
GreedyDoneOnA ==
    /\ segments = ScenarioA(laser_mode)
    /\ opt_pc = "greedy"
    /\ unused = << >>

\* C28: for S1 [(0,0),(10,0)], S2 [(20,0),(30,0)], S3 [(10,0),(10,10)] given in
\* that order, greedy stage 1 ends with the order S1, S3, S2, none reversed.
C28_GreedyOnScenarioA ==
    GreedyDoneOnA => order = << S1(laser_mode), S3(laser_mode), S2(laser_mode) >>
C28_Witness ==
    /\ GreedyDoneOnA
    /\ level = 0
    /\ order = << S1(laser_mode), S3(laser_mode), S2(laser_mode) >>

\* the greedy order of Scenario A has been measured (line 391)
MeasuredOnA ==
    /\ segments = ScenarioA(laser_mode)
    /\ opt_pc = "loop"
    /\ iter_num = 0

\* C29: the travel of the greedy order S1, S3, S2 of Scenario A is the distance
\* from (10,10) to (20,0), which is 14.14 (in hundredths, rounded down: 1414).
C29_TravelOnScenarioA ==
    MeasuredOnA =>
        /\ initial_travel = total_travel(<< S1(laser_mode), S3(laser_mode), S2(laser_mode) >>)
        /\ initial_travel = dist(<< 10, 10 >>, << 20, 0 >>)
        /\ initial_travel = 1414
\* C29 as stated: that travel is approximately 13.45.
C29_TravelAsStated ==
    MeasuredOnA => (1344 <= initial_travel /\ initial_travel <= 1346)
C29_Witness ==
    /\ MeasuredOnA
    /\ level = 2
    /\ order = << S1(laser_mode), S3(laser_mode), S2(laser_mode) >>
    /\ initial_travel = 1414

\* the lines of the segments segs[pi[1]], segs[pi[2]], ..., each after the
\* travel tr gives it
RECURSIVE Woven(_, _, _, _)
Woven(segs, pi, tr, i) ==
    IF i = 0 THEN << >>
    ELSE Woven(segs, pi, tr, i - 1) \o tr[i] \o segs[pi[i]].lines
\* no travel, or the inserted travel to one of the two ends of the segment
Travels(seg) ==
    { << >>, TravelTo(First(seg), laser_mode), TravelTo(Last(seg), laser_mode) }

\* C30: the emitted lines are the preamble, then the lines of every parsed
\* segment once, in their parsed order inside the segment, the segments in
\* some order and each after at most one inserted travel, then the epilogue.
C30_OnlyTravelAndOrderDiffer ==
    (opt_pc = "written" /\ segments # << >>) =>
        \E pi \in Permutations(1..Len(segments)) :
            \E tr \in [1..Len(segments) -> UNION { Travels(segments[k]) : k \in 1..Len(segments) }] :
                out_lines = preamble \o Woven(segments, pi, tr, Len(segments)) \o epilogue

-----------------------------------------------------------------------------
(* Claims on the emitter's travel and on the shape of segments *)

\* the positions of the emitted lines, after the preamble, that are travel
\* moves: in laser mode a G1 with a feed word, otherwise a G0
TravelMoves ==
    { k \in (Len(preamble) + 1)..(Len(out_lines) - Len(epilogue)) :
        IF laser_mode
           THEN out_lines[k][1] = Word("G", 1) /\ HasAxis(out_lines[k], "F")
           ELSE out_lines[k][1] = Word("G", 0) }
\* the emitted lines that are neither preamble, epilogue nor segment lines
InsertedCount ==
    Len(out_lines) - Len(preamble) - Len(epilogue) - Len(SegmentLines(order, Len(order)))

\* C31: in laser mode every inserted travel move comes right after an inserted
\* M5 and carries the idle feed rate, and nothing else is inserted; in
\* non-laser mode the inserted lines are exactly the G0 travel moves.
C31_TravelWithLaserOff ==
    (opt_pc = "written" /\ segments # << >>) =>
        IF laser_mode
           THEN /\ \A k \in TravelMoves :
                      /\ k > Len(preamble) + 1
                      /\ out_lines[k - 1] = << Word("M", 5) >>
                      /\ out_lines[k][2] = Word("F", idle_F)
                /\ InsertedCount = 2 * Cardinality(TravelMoves)
           ELSE InsertedCount = Cardinality(TravelMoves)
C31_Witness ==
    /\ opt_pc = "written"
    /\ laser_mode
    /\ Cardinality(TravelMoves) = 3
    /\ InsertedCount = 6

\* the points the tool visits when a controller in absolute mode executes the
\* lines ls[i..] from the point path ends with: every G0 / G1 line moves the
\* tool to the coordinates it names
RECURSIVE Executed(_, _, _)
Executed(ls, i, path) ==
    IF i > Len(ls) THEN path
    ELSE IF ls[i][1] \in { Word("G", 0), Word("G", 1) }
         THEN LET at == path[Len(path)]
                  to == << IF HasAxis(ls[i], "X") THEN LastOf(ls[i], "X") ELSE at[1],
                           IF HasAxis(ls[i], "Y") THEN LastOf(ls[i], "Y") ELSE at[2] >>
              IN  Executed(ls, i + 1, Append(path, to))
         ELSE Executed(ls, i + 1, path)

\* C32: for every segment of the returned order, executing its lines from its
\* first point visits its points in order and ends at its last point.
C32_LinesFollowPoints ==
    Returned =>
        \A i \in 1..Len(order) :
            Executed(order[i].lines, 1, << order[i].points[1] >>) = order[i].points

-----------------------------------------------------------------------------
(* Claims on the receive pass and the session flags of GRBLController *)

\* C33: when a receive pass of serial_reader is over, the receive buffer holds
\* no complete frame: no status report and no newline-terminated "ok" or
\* "error:" token.
C33_PassTakesEveryFrame ==
    rd_pc = "poll" => (AckTokens(receive_buffer) = 0 /\ ~RdStatusFirst(receive_buffer))

\* C40: the session is never paused while it is not running: no reachable
\* state has self.paused true and self.running false, whatever the
\* interleaving of the button handlers with the reader's send_next_gcode.
C40_NeverPausedNotRunning ==
    ~(gc_paused /\ ~gc_running)

-----------------------------------------------------------------------------
(* Claims on what the segmenter puts where *)

\* line i of the input is a cutting move
CutMove(i) ==
    /\ ~HasWord(lines[i], "M", 3)
    /\ ~HasWord(lines[i], "M", 5)
    /\ is_g_move(lines[i])
    /\ ~IdleMove(i)
CutMoves == { i \in 1..Len(lines) : CutMove(i) }
\* s can be had from t by leaving lines out
RECURSIVE IsSubseq(_, _)
IsSubseq(s, t) ==
    IF s = << >> THEN TRUE
    ELSE IF t = << >> THEN FALSE
    ELSE IF Head(s) = Head(t) THEN IsSubseq(Tail(s), Tail(t))
    ELSE IsSubseq(s, Tail(t))
\* the input before its first and after its last cutting move
BeforeFirstCut ==
    IF CutMoves = { } THEN lines
    ELSE SubSeq(lines, 1, (CHOOSE i \in CutMoves : \A j \in CutMoves : i <= j) - 1)
AfterLastCut ==
    IF CutMoves = { } THEN lines
    ELSE SubSeq(lines, (CHOOSE i \in CutMoves : \A j \in CutMoves : j <= i) + 1, Len(lines))

\* C34: when parse_gcode_lines has returned, the epilogue is made of input
\* lines after the last cutting move and the preamble of input lines before
\* the first cutting move.
C34_PreambleBeforeEpilogueAfter ==
    parse_pc = "returned" =>
        /\ IsSubseq(preamble, BeforeFirstCut)
        /\ IsSubseq(epilogue, AfterLastCut)

\* a coordinate-mode switch line, and a linear-feed move line
ModeSwitch(l) == HasWord(l, "G", 90) \/ HasWord(l, "G", 91)
FeedMove(l) == l # << >> /\ l[1] = Word("G", 1)

\* C35: no segment the segmenter has closed holds a G90 / G91 line between two
\* of its cutting moves (a mode-switch line met in an open segment closes it).
C35_ModeSwitchClosesSegment ==
    \A n \in 1..Len(segments) :
        LET ls == segments[n].lines
        IN  \A j \in 1..Len(ls) :
                ModeSwitch(ls[j]) =>
                    ~(/\ \E i \in 1..(j - 1) : FeedMove(ls[i])
                      /\ \E k \in (j + 1)..Len(ls) : FeedMove(ls[k]))

\* the step reads a motion line (G0 / G1 at its start), and that line
MotionRead == Len(lines') = Len(lines) + 1 /\ is_g_move(lines'[Len(lines')])
\* the line read is idle as the claim defines it: a rapid move, or a
\* linear-feed move when a laser command was seen earlier and the laser is off
IdleAsDefined ==
    \/ lines'[Len(lines')][1].v = 0
    \/ LaserOffBefore(Len(lines) + 1)

\* C36: a step that reads a motion line handles it as idle (the open segment
\* is closed, no point is added) exactly when the line is a rapid move or a
\* linear-feed move with the laser seen and off, and otherwise as a cutting
\* move (a segment is open afterwards and the new position is its last
\* point); no other step adds a point to a segment after its first one.
C36_IdleExactlyAsDefined ==
    /\ [][ MotionRead =>
             IF IdleAsDefined
                THEN ~in_segment' /\ seg_points' = << >>
                ELSE /\ in_segment'
                     /\ Len(seg_points') = (IF in_segment THEN Len(seg_points) ELSE 1) + 1
                     /\ seg_points'[Len(seg_points')] = current_pos' ]_vars
    /\ [][ (Len(seg_points') > Len(seg_points) /\ Len(seg_points') > 1)
             => (MotionRead /\ ~IdleAsDefined) ]_vars

-----------------------------------------------------------------------------
(* Claims on the greedy stage and the local search *)

\* the squared distance from point p to the nearer end of segment u
Nearest(p, u) ==
    IF dist_sq(p, Last(u)) < dist_sq(p, First(u)) THEN dist_sq(p, Last(u))
                                                  ELSE dist_sq(p, First(u))
\* the step appends unused[idx]: it is the earliest unused segment with an end
\* at the least squared distance from the tail, and it is reversed exactly
\* when its end is strictly nearer than its start
AppendsNearest(idx) ==
    LET tail == Last(order[Len(order)])
        u == unused[idx]
        new == order'[Len(order')]
    IN  /\ \A m \in 1..Len(unused) : Nearest(tail, u) <= Nearest(tail, unused[m])
        /\ \A m \in 1..(idx - 1) : Nearest(tail, unused[m]) > Nearest(tail, u)
        /\ unused' = SubSeq(unused, 1, idx - 1) \o SubSeq(unused, idx + 1, Len(unused))
        /\ IF dist_sq(tail, Last(u)) < dist_sq(tail, First(u))
              THEN new.points = Reverse(u.points) /\ new.lines = Reverse(u.lines)
              ELSE new = u

\* C37: greedy stage 1 starts the order with the first input segment as it
\* is, and every step appends the earliest unused segment that owns an end at
\* the least squared distance from the tail, reversed exactly when its end is
\* strictly nearer than its start.
C37_GreedyTakesNearestEnd ==
    /\ [][ (opt_pc = "idle" /\ opt_pc' = "greedy") => order' = << segments[1] >> ]_vars
    /\ [][ (opt_pc = "greedy" /\ order' # order) =>
             /\ SubSeq(order', 1, Len(order)) = order
             /\ Len(order') = Len(order) + 1
             /\ \E idx \in 1..Len(unused) : AppendsNearest(idx) ]_vars
C37_Witness ==
    /\ opt_pc = "greedy"
    /\ Len(order) = 3
    /\ segments[3].points[1] # segments[3].points[2]
    /\ order[2].points = Reverse(segments[3].points)
    /\ order[3] = segments[2]

\* C38: a rejected mutation is discarded, at level 2 and in the workers of
\* level 1: whenever the local search replaces the order, the new order is one
\* mutation (with its orientation pass) of the order it replaces, never the
\* result of a mutation applied on top of a rejected one.
C38_RejectedMutationDiscarded ==
    [][ (opt_pc \in { "local", "parallel" } /\ order' # order) =>
          \E c \in Choices(Len(order)) : order' = Mutated(order, c[1], c[2], c[3]) ]_vars

\* C39: optimize_segments returns for every input; it makes at most MaxIter
\* rounds of at most MaxAttempts attempts, and the loop ends at the first
\* round that found no improvement.
C39_OptimizerTerminates ==
    /\ <>(opt_pc \in { "done", "written" } /\ iter_num <= MaxIter /\ attempt <= MaxAttempts)
    /\ [](opt_pc \in { "local", "parallel" } => improved /\ iter_num <= MaxIter)
    /\ [][ (opt_pc = "loop" /\ ~improved) => opt_pc' = "done" ]_vars
C39_Witness ==
    /\ opt_pc = "done"
    /\ level = 2
    /\ iter_num = MaxIter
    /\ improved

====
